---------------------------- MODULE Spec2Model ----------------------------
(***************************************************************************)
(* Model of the CV analysis route (parseCV, the section locator, the field *)
(* extractors, the keyword matcher and the ATS scorer).                    *)
(*                                                                         *)
(* A JavaScript string is a sequence of one-character strings:             *)
(* Chars("Go") = <<"G", "o">>.  The three non-ASCII characters the code    *)
(* names are the elements Bullet, EnDash and EmDash.  The values null and  *)
(* undefined are the one-element sequences Null and Undefined, whose       *)
(* element is no character.  An index is 1-based; a matcher takes a string *)
(* and a start index and gives the index one past what it matched, or 0    *)
(* when it does not match there.                                           *)
(***************************************************************************)
EXTENDS Integers, Sequences, FiniteSets, TLC

Chars(s) == IF s = "" THEN <<>> ELSE [i \in 1..Len(s) |-> SubSeq(s, i, i)]

Bullet == "<U+2022>"
EnDash == "<U+2013>"
EmDash == "<U+2014>"
Null == <<"<null>">>
Undefined == <<"<undefined>">>

LowerMap ==
  [A |-> "a", B |-> "b", C |-> "c", D |-> "d", E |-> "e", F |-> "f", G |-> "g",
   H |-> "h", I |-> "i", J |-> "j", K |-> "k", L |-> "l", M |-> "m", N |-> "n",
   O |-> "o", P |-> "p", Q |-> "q", R |-> "r", S |-> "s", T |-> "t", U |-> "u",
   V |-> "v", W |-> "w", X |-> "x", Y |-> "y", Z |-> "z"]
\* [A-Z]
UpperSet == DOMAIN LowerMap
\* \d
Digit == {"0", "1", "2", "3", "4", "5", "6", "7", "8", "9"}
\* [a-z] under /i
Letter == UpperSet \cup {LowerMap[c] : c \in UpperSet}
\* \w
WordChar == Letter \cup Digit \cup {"_"}
\* \s (the members a model text can hold)
Whitespace == {" ", "\t", "\n", "\r", "\f"}

\* String.prototype.toLowerCase
toLowerCase(s) == [i \in 1..Len(s) |-> IF s[i] \in UpperSet THEN LowerMap[s[i]] ELSE s[i]]

\* the index one past the maximal run of characters of class C that starts at i
RECURSIVE RunEnd(_, _, _)
RunEnd(s, i, C) == IF i > Len(s) \/ s[i] \notin C THEN i ELSE RunEnd(s, i + 1, C)

\* the index one before the maximal run of characters of class C that ends at i
RECURSIVE RunStart(_, _, _)
RunStart(s, i, C) == IF i < 1 \/ s[i] \notin C THEN i ELSE RunStart(s, i - 1, C)

\* String.prototype.trim
trim(s) ==
  LET a == RunEnd(s, 1, Whitespace)
  IN  IF a > Len(s) THEN <<>> ELSE SubSeq(s, a, RunStart(s, Len(s), Whitespace))

\* whether t occurs in s at index i
OccursAt(s, t, i) ==
  /\ i >= 1
  /\ i + Len(t) - 1 <= Len(s)
  /\ \A k \in 1..Len(t) : s[i + k - 1] = t[k]

\* String.prototype.startsWith
startsWith(s, t) == OccursAt(s, t, 1)

\* String.prototype.indexOf from index i on; 0 when t does not occur
RECURSIVE IndexFrom(_, _, _)
IndexFrom(s, t, i) ==
  IF i + Len(t) - 1 > Len(s) THEN 0
  ELSE IF OccursAt(s, t, i) THEN i
  ELSE IndexFrom(s, t, i + 1)

\* String.prototype.includes
includes(s, t) == IndexFrom(s, t, 1) # 0

\* String.prototype.replace(t, ""), t a string: the first occurrence is removed
removeFirst(s, t) ==
  LET i == IndexFrom(s, t, 1)
  IN  IF i = 0 THEN s ELSE SubSeq(s, 1, i - 1) \o SubSeq(s, i + Len(t), Len(s))

\* the first index >= i of s that holds a character of C; 0 when there is none
RECURSIVE IndexOfIn(_, _, _)
IndexOfIn(s, C, i) ==
  IF i > Len(s) THEN 0 ELSE IF s[i] \in C THEN i ELSE IndexOfIn(s, C, i + 1)

\* String.prototype.split on one character of C: the pieces of s from index i on
RECURSIVE SplitFrom(_, _, _)
SplitFrom(s, C, i) ==
  LET j == IndexOfIn(s, C, i)
  IN  IF j = 0 THEN <<SubSeq(s, i, Len(s))>>
      ELSE <<SubSeq(s, i, j - 1)>> \o SplitFrom(s, C, j + 1)

\* text.split("\n")
splitLines(s) == SplitFrom(s, {"\n"}, 1)

\* Array.prototype.join
RECURSIVE join(_, _)
join(parts, sep) ==
  IF Len(parts) = 0 THEN <<>>
  ELSE IF Len(parts) = 1 THEN parts[1]
  ELSE parts[1] \o sep \o join(Tail(parts), sep)

\* the array as it is, were it not sliced
unsliced(xs, n) == xs

\* Array.prototype.slice(0, n)
slice(xs, n) == IF Len(xs) <= n THEN xs ELSE SubSeq(xs, 1, n)

\* Set.prototype.has and Array.prototype.includes, the set kept as a sequence
has(xs, x) == \E k \in 1..Len(xs) : xs[k] = x

\* new Set(xs) from index i on: the distinct elements in insertion order
RECURSIVE uniqueFrom(_, _, _)
uniqueFrom(xs, i, acc) ==
  IF i > Len(xs) THEN acc
  ELSE uniqueFrom(xs, i + 1, IF has(acc, xs[i]) THEN acc ELSE Append(acc, xs[i]))

\* the array as it is, were it not passed through a Set
withoutDedupe(xs) == xs

\* [...new Set(xs)]
unique(xs) == uniqueFrom(xs, 1, <<>>)

\* Array.prototype.map(s => s.trim())
mapTrim(xs) == [i \in 1..Len(xs) |-> trim(xs[i])]

\* the index after s[a] when s[a] is in C, a otherwise: an optional character
SkipIn(s, a, C) == IF a >= 1 /\ a <= Len(s) /\ s[a] \in C THEN a + 1 ELSE a

(***************************************************************************)
(* extractSection                                                          *)
(***************************************************************************)
ReferenceWords ==
  {Chars("reference"), Chars("references"), Chars("referee"), Chars("referees")}

\* a test that takes no line for a references line
neverReferences(lower) == FALSE

\* the four tests of lines 238-241, of the trimmed line in lower case
ReferencesLower(lower) ==
  \/ lower \in ReferenceWords
  \/ \E w \in ReferenceWords :
       /\ startsWith(lower, w)
       /\ SkipIn(lower, RunEnd(lower, Len(w) + 1, Whitespace), {":"})
            > RunEnd(lower, Len(w) + 1, Whitespace)
  \/ includes(lower, Chars("available upon request"))
  \/ includes(lower, Chars("references available"))

\* the references/referees test of a trimmed line
IsReferencesLine(line) == ReferencesLower(toLowerCase(line))

SectionVocabulary ==
  {Chars("personal"), Chars("contact"), Chars("summary"), Chars("objective"),
   Chars("profile"), Chars("experience"), Chars("work"), Chars("employment"),
   Chars("education"), Chars("skills"), Chars("technical"),
   Chars("certification"), Chars("certifications"), Chars("project"),
   Chars("projects"), Chars("award"), Chars("awards"), Chars("language"),
   Chars("languages"), Chars("interest"), Chars("interests"), Chars("hobbie"),
   Chars("hobbies"), Chars("publication"), Chars("publications"),
   Chars("volunteer")}

\* the test of line 248 without its $: the line starts with a word of the
\* vocabulary
startsNewSection(line) ==
  Len(line) < 50 /\ \E w \in SectionVocabulary : startsWith(toLowerCase(line), w)

\* isNewSection && currentLine.length < 50, of a trimmed line
isNewSection(line) == Len(line) < 50 /\ toLowerCase(line) \in SectionVocabulary

\* the header test without the length test of line 227
headerOfAnyLength(line, keyword) ==
  includes(trim(toLowerCase(line)), toLowerCase(keyword))

\* whether a line is a section header for a keyword
IsHeaderLine(line, keyword) ==
  LET keywordLower == toLowerCase(keyword)
      lineLower == trim(toLowerCase(line))
  IN  \/ lineLower = keywordLower
      \/ startsWith(lineLower, keywordLower \o <<":">>)
      \/ startsWith(lineLower, keywordLower \o <<" ">>)
      \/ (includes(lineLower, keywordLower) /\ Len(trim(line)) < 50)

\* the first line of lines, from i on, that is a header for keyword; 0 if none
RECURSIVE HeaderIndex(_, _, _)
HeaderIndex(lines, keyword, i) ==
  IF i > Len(lines) THEN 0
  ELSE IF IsHeaderLine(lines[i], keyword) THEN i
  ELSE HeaderIndex(lines, keyword, i + 1)

\* the earliest line that is a header for any keyword from the k-th on
earliestHeader(lines, keywords, k) ==
  IF \E i \in 1..Len(lines) : \E j \in k..Len(keywords) : IsHeaderLine(lines[i], keywords[j])
  THEN CHOOSE i \in 1..Len(lines) :
         /\ \E j \in k..Len(keywords) : IsHeaderLine(lines[i], keywords[j])
         /\ \A h \in 1..(i - 1) :
              \A j \in k..Len(keywords) : ~IsHeaderLine(lines[h], keywords[j])
  ELSE 0

\* the header line of the first keyword, from the k-th on, that has one; 0 if none
RECURSIVE SectionHeader(_, _, _)
SectionHeader(lines, keywords, k) ==
  IF k > Len(keywords) THEN 0
  ELSE IF HeaderIndex(lines, keywords[k], 1) # 0 THEN HeaderIndex(lines, keywords[k], 1)
  ELSE SectionHeader(lines, keywords, k + 1)

\* the first line, from j on, that ends the section
RECURSIVE SectionEnd(_, _)
SectionEnd(lines, j) ==
  IF j > Len(lines) THEN j
  ELSE IF IsReferencesLine(trim(lines[j])) \/ isNewSection(trim(lines[j])) THEN j
  ELSE SectionEnd(lines, j + 1)

\* the lines under the header at line i (0: no header was found), joined
SectionBody(lines, i) ==
  IF i = 0 THEN <<>>
  ELSE join(SubSeq(lines, i + 1, SectionEnd(lines, i + 1) - 1), <<"\n">>)

extractSection(text, keywords) ==
  SectionBody(splitLines(text), SectionHeader(splitLines(text), keywords, 1))

(***************************************************************************)
(* extractSkills                                                           *)
(***************************************************************************)
NonSkillSections ==
  {Chars("interest"), Chars("hobbie"), Chars("publication"), Chars("volunteer"),
   Chars("award"), Chars("certification")}

\* the two tests of extractSkills that end its loop, of a trimmed line
SkillsStop(trimmedLine) ==
  \/ IsReferencesLine(trimmedLine)
  \/ includes(toLowerCase(trimmedLine), Chars("referees available"))
  \/ \E w \in NonSkillSections : startsWith(toLowerCase(trimmedLine), w)

\* .replace(/^[C]\s*/, "")
stripBullet(s, C) ==
  IF Len(s) > 0 /\ s[1] \in C THEN SubSeq(s, RunEnd(s, 2, Whitespace), Len(s)) ELSE s

\* .replace(/^<stem>s?[:\-]?\s*/i, "")
stripLabel(s, stem) ==
  IF startsWith(toLowerCase(s), stem)
  THEN SubSeq(s, RunEnd(s, SkipIn(s, SkipIn(s, Len(stem) + 1, {"s", "S"}), {":", "-"}),
                        Whitespace), Len(s))
  ELSE s

cleanLine(trimmedLine) ==
  stripLabel(stripLabel(stripLabel(stripBullet(trimmedLine, {Bullet, "-", "*", "+"}),
    Chars("skill")), Chars("technologie")), Chars("tool"))

\* a filter that drops no word
noStopwords == {}

SkillStopwords ==
  {Chars("and"), Chars("or"), Chars("the"), Chars("with"), Chars("using"),
   Chars("including"), Chars("available"), Chars("upon"), Chars("request"),
   Chars("referee"), Chars("referees")}

\* the fragments one line of the section contributes
splitSkills(trimmedLine) ==
  SelectSeq(mapTrim(SplitFrom(cleanLine(trimmedLine), {",", ";", "|", Bullet}, 1)),
            LAMBDA s : Len(s) > 1 /\ Len(s) < 60 /\ toLowerCase(s) \notin SkillStopwords)

\* the skills array when the loop ends: the fragments of the lines from i on
RECURSIVE SkillFragments(_, _)
SkillFragments(lines, i) ==
  IF i > Len(lines) THEN <<>>
  ELSE IF Len(trim(lines[i])) = 0 THEN SkillFragments(lines, i + 1)
  ELSE IF SkillsStop(trim(lines[i])) THEN <<>>
  ELSE splitSkills(trim(lines[i])) \o SkillFragments(lines, i + 1)

extractSkills(text) ==
  IF Len(text) = 0 THEN <<>>
  ELSE slice(unique(SkillFragments(splitLines(text), 1)), 30)

(***************************************************************************)
(* extractDuration                                                         *)
(***************************************************************************)
Months ==
  {Chars("jan"), Chars("feb"), Chars("mar"), Chars("apr"), Chars("may"),
   Chars("jun"), Chars("jul"), Chars("aug"), Chars("sep"), Chars("oct"),
   Chars("nov"), Chars("dec")}

\* \b between s[i-1] and s[i]
WordBoundary(s, i) ==
  (i - 1 >= 1 /\ i - 1 <= Len(s) /\ s[i - 1] \in WordChar)
    # (i >= 1 /\ i <= Len(s) /\ s[i] \in WordChar)

\* \d{4}
Year4(s, i) ==
  IF i >= 1 /\ i + 3 <= Len(s) /\ \A k \in i..(i + 3) : s[k] \in Digit
  THEN i + 4 ELSE 0

\* (jan|...|dec)[a-z]*\.?\s+\d{4} under /i
MonthYear(s, i) ==
  IF i >= 1 /\ i + 2 <= Len(s) /\ toLowerCase(SubSeq(s, i, i + 2)) \in Months
  THEN LET b == SkipIn(s, RunEnd(s, i + 3, Letter), {"."})
       IN  IF RunEnd(s, b, Whitespace) > b THEN Year4(s, RunEnd(s, b, Whitespace)) ELSE 0
  ELSE 0

\* \d{1,2}\/\d{4}
SlashYear(s, i) ==
  IF i >= 1 /\ i <= Len(s) /\ s[i] \in Digit
  THEN IF i + 2 <= Len(s) /\ s[i + 1] \in Digit /\ s[i + 2] = "/"
       THEN Year4(s, i + 3)
       ELSE IF i + 1 <= Len(s) /\ s[i + 1] = "/" THEN Year4(s, i + 2) ELSE 0
  ELSE 0

\* the character class [-–—to]
RangeSeparator == {"-", EnDash, EmDash, "t", "o"}

\* \s*[-–—to]\s* at index i, 0 standing for no match so far; ignoreCase is
\* the pattern's /i flag
Separator(s, i, ignoreCase) ==
  LET j == RunEnd(s, i, Whitespace)
  IN  IF /\ i # 0
         /\ j <= Len(s)
         /\ (s[j] \in RangeSeparator \/ (ignoreCase /\ s[j] \in {"T", "O"}))
      THEN RunEnd(s, j + 1, Whitespace)
      ELSE 0

\* present\b under /i
Present(s, i) ==
  IF i >= 1 /\ OccursAt(toLowerCase(s), Chars("present"), i) /\ WordBoundary(s, i + 7)
  THEN i + 7 ELSE 0

\* a closing \b
EndBoundary(s, e) == IF e # 0 /\ WordBoundary(s, e) THEN e ELSE 0

\* the six patterns of extractDuration, in the order of the array
PatternEnd(s, i, p) ==
  IF ~WordBoundary(s, i) THEN 0
  ELSE CASE p = 1 -> EndBoundary(s, MonthYear(s, Separator(s, MonthYear(s, i), TRUE)))
         [] p = 2 -> Present(s, Separator(s, MonthYear(s, i), TRUE))
         [] p = 3 -> EndBoundary(s, Year4(s, Separator(s, Year4(s, i), FALSE)))
         [] p = 4 -> Present(s, Separator(s, Year4(s, i), TRUE))
         [] p = 5 -> EndBoundary(s, SlashYear(s, Separator(s, SlashYear(s, i), FALSE)))
         [] p = 6 -> Present(s, Separator(s, SlashYear(s, i), TRUE))

\* text.match(patterns[p]): the leftmost match from index i on, or Null
RECURSIVE PatternMatch(_, _, _)
RECURSIVE MatchAt(_, _, _, _)
PatternMatch(s, p, i) ==
  IF i > Len(s) THEN Null ELSE MatchAt(s, p, i, PatternEnd(s, i, p))

\* the same, e being where pattern p ends when matched at i
MatchAt(s, p, i, e) ==
  IF e # 0 THEN SubSeq(s, i, e - 1) ELSE PatternMatch(s, p, i + 1)

\* the match, among those of the patterns from p on, that starts first in
\* the text
leftmostDuration(text, p) ==
  LET found == {q \in p..6 : PatternMatch(text, q, 1) # Null}
      first == CHOOSE q \in found :
                 \A r \in found :
                   \/ IndexFrom(text, PatternMatch(text, q, 1), 1)
                        < IndexFrom(text, PatternMatch(text, r, 1), 1)
                   \/ /\ IndexFrom(text, PatternMatch(text, q, 1), 1)
                           = IndexFrom(text, PatternMatch(text, r, 1), 1)
                      /\ q <= r
  IN  IF found = {} THEN <<>> ELSE PatternMatch(text, first, 1)

\* the loop of lines 637-640 from pattern p on
RECURSIVE DurationFrom(_, _)
RECURSIVE DurationAt(_, _, _)
DurationFrom(text, p) ==
  IF p > 6 THEN <<>> ELSE DurationAt(text, p, PatternMatch(text, p, 1))

\* the same, match being what text.match(patterns[p]) gave
DurationAt(text, p, match) ==
  IF match # Null THEN match ELSE DurationFrom(text, p + 1)

extractDuration(text) == DurationFrom(text, 1)

(***************************************************************************)
(* extractExperience                                                       *)
(***************************************************************************)
LeadingSeparators == {"-", EnDash, EmDash, "|", ","}

\* .replace(/^[\-–—|,]\s*/, "").replace(/[\-–—|,]\s*$/, "")
stripSeparators(s) ==
  LET a == stripBullet(s, LeadingSeparators)
      b == RunStart(a, Len(a), Whitespace)
  IN  IF b >= 1 /\ a[b] \in LeadingSeparators THEN SubSeq(a, 1, b - 1) ELSE a

\* the end of a match at q of /\s*[\|@]\s*|\s*,\s*(?=[A-Z])/ (upperOnly) or of
\* /\s*[\|@,]\s*/ (otherwise); 0 when there is no match at q
SeparatorEnd(s, q, upperOnly) ==
  LET w == RunEnd(s, q, Whitespace)
      e == RunEnd(s, w + 1, Whitespace)
  IN  IF w > Len(s) THEN 0
      ELSE IF s[w] \in {"|", "@"} THEN e
      ELSE IF s[w] = "," /\ (upperOnly => (e <= Len(s) /\ s[e] \in UpperSet)) THEN e
      ELSE 0

\* String.prototype.split on one of the two separator patterns: the parts of
\* s, the current part starting at p and the search standing at q
RECURSIVE SplitParts(_, _, _, _)
SplitParts(s, p, q, upperOnly) ==
  IF q > Len(s) THEN <<SubSeq(s, p, Len(s))>>
  ELSE LET e == SeparatorEnd(s, q, upperOnly)
       IN  IF e = 0 THEN SplitParts(s, p, q + 1, upperOnly)
           ELSE <<SubSeq(s, p, q - 1)>> \o SplitParts(s, e, e, upperOnly)

\* !line.startsWith(b) for every b of bullets
NoBulletStart(line, bullets) == Len(line) = 0 \/ line[1] \notin bullets

looksLikeTitle(line) ==
  Len(line) > 5 /\ Len(line) < 100 /\ NoBulletStart(line, {"-", Bullet, "*"})

\* descriptionLines.map(l => l.replace(/^[•\-\*]\s*/, "")).join(" ").trim()
describe(descriptionLines) ==
  trim(join([k \in 1..Len(descriptionLines) |->
               stripBullet(descriptionLines[k], {Bullet, "-", "*"})], <<" ">>))

NewJob == [title |-> <<>>, company |-> <<>>, duration |-> <<>>, description |-> <<>>]

\* the line without its duration and without the separators around it
remaining(line, duration) == stripSeparators(trim(removeFirst(line, duration)))

\* the new job after the line that starts it was parsed (lines 385-417)
JobOfLine(line, duration) ==
  LET parts == SplitParts(remaining(line, duration), 1, 1, TRUE)
  IN  IF Len(duration) = 0 THEN [NewJob EXCEPT !.title = line]
      ELSE IF Len(parts) >= 2
      THEN [NewJob EXCEPT !.duration = duration, !.title = trim(parts[1]),
                          !.company = trim(parts[2])]
      ELSE IF Len(parts[1]) > 0
      THEN [NewJob EXCEPT !.duration = duration, !.title = trim(parts[1])]
      ELSE [NewJob EXCEPT !.duration = duration]

\* the loop variables of extractExperience before the first line.  currentJob
\* is <<>> for null and <<job>> otherwise; done is set by a break.
ExperienceStart ==
  [i |-> 1, currentJob |-> <<>>, descriptionLines |-> <<>>, experiences |-> <<>>,
   done |-> FALSE]

\* the loop variables when the pass that started job ends, the look-ahead
\* having consumed skip more lines
started(st, job, skip) ==
  [st EXCEPT !.i = @ + 1 + skip, !.currentJob = <<job>>, !.descriptionLines = <<>>]

\* lines 443-455, thirdDuration being "" when the third line is not read
TakeCompany(st, job, nextLine, thirdDuration) ==
  IF Len(thirdDuration) > 0
  THEN started(st, [job EXCEPT !.company = nextLine, !.duration = thirdDuration], 2)
  ELSE started(st, [job EXCEPT !.company = nextLine], 1)

\* lines 428-456
LookAtDuration(lines, st, job, nextLine, nextDuration) ==
  IF Len(nextDuration) > 0 /\ Len(job.duration) = 0
  THEN started(st, [job EXCEPT !.duration = nextDuration,
                      !.company = IF /\ Len(remaining(nextLine, nextDuration)) > 0
                                     /\ Len(job.company) = 0
                                  THEN remaining(nextLine, nextDuration) ELSE @], 1)
  ELSE IF Len(job.company) = 0 /\ Len(nextLine) < 100
  THEN TakeCompany(st, job, nextLine,
                   IF st.i + 2 <= Len(lines) /\ Len(job.duration) = 0
                   THEN extractDuration(trim(lines[st.i + 2])) ELSE <<>>)
  ELSE started(st, job, 0)

\* the look-ahead of lines 419-458
JobLookAhead(lines, st, job) ==
  IF /\ st.i + 1 <= Len(lines)
     /\ Len(trim(lines[st.i + 1])) > 0
     /\ NoBulletStart(trim(lines[st.i + 1]), {"-", Bullet})
  THEN LookAtDuration(lines, st, job, trim(lines[st.i + 1]),
                      extractDuration(trim(lines[st.i + 1])))
  ELSE started(st, job, 0)

\* the push of the job in progress, were its title not tested
saveJobUntitled(st) ==
  IF Len(st.currentJob) > 0
  THEN [st EXCEPT !.currentJob =
                    <<[st.currentJob[1] EXCEPT !.description = describe(st.descriptionLines)]>>,
                  !.experiences =
                    Append(@, [st.currentJob[1] EXCEPT
                                 !.description = describe(st.descriptionLines)]),
                  !.done = Len(st.experiences) + 1 >= 5]
  ELSE st

\* lines 374-382, and lines 466-472 where the cap is not tested
saveJob(st) ==
  LET job == IF Len(st.currentJob) > 0
             THEN [st.currentJob[1] EXCEPT !.description = describe(st.descriptionLines)]
             ELSE NewJob
  IN  IF Len(job.title) > 0
      THEN [st EXCEPT !.currentJob = <<job>>, !.experiences = Append(@, job),
                      !.done = Len(st.experiences) + 1 >= 5]
      ELSE st

\* lines 372-462, saved being the variables after the previous job was saved
jobStep(lines, st, saved, line, duration) ==
  IF Len(duration) > 0 \/ looksLikeTitle(line)
  THEN (IF saved.done THEN saved
        ELSE JobLookAhead(lines, saved, JobOfLine(line, duration)))
  ELSE IF Len(st.currentJob) > 0
  THEN [st EXCEPT !.i = @ + 1, !.descriptionLines = Append(@, line)]
  ELSE [st EXCEPT !.i = @ + 1]

\* one pass of the for loop (lines 345-462 and the i++ of line 344); the
\* break of line 357 sets done as the break of line 381 does
experiencePass(lines, st) ==
  IF Len(trim(lines[st.i])) = 0 THEN [st EXCEPT !.i = @ + 1]
  ELSE IF IsReferencesLine(trim(lines[st.i])) THEN [st EXCEPT !.done = TRUE]
  ELSE jobStep(lines, st, saveJob(st), trim(lines[st.i]),
               extractDuration(trim(lines[st.i])))

\* the for loop of extractExperience: the variables when it ends
RECURSIVE ExperienceLoop(_, _)
ExperienceLoop(lines, st) ==
  IF st.done \/ st.i > Len(lines) THEN st
  ELSE ExperienceLoop(lines, experiencePass(lines, st))

\* the list cut at five with the job in progress left out
experiencesUnsaved(st) == slice(st.experiences, 5)

\* lines 465-474: the last job saved and the list cut at five
experiencesReturned(st) == slice(saveJob(st).experiences, 5)

\* the experiences array after the last job was saved (lines 465-472)
ExperienceEntries(text) ==
  saveJob(ExperienceLoop(splitLines(text), ExperienceStart)).experiences

\* extractExperience without the slice of line 474
extractExperienceUncapped(text) ==
  IF Len(text) = 0 THEN <<>> ELSE ExperienceEntries(text)

extractExperience(text) ==
  IF Len(text) = 0 THEN <<>> ELSE slice(ExperienceEntries(text), 5)

(***************************************************************************)
(* extractEducation                                                        *)
(***************************************************************************)
\* the leftmost run of four digits between word boundaries from index i on,
\* whatever its century, or Null
fourDigitsMatch(s, i) ==
  LET at == {k \in i..Len(s) : WordBoundary(s, k) /\ Year4(s, k) # 0 /\ WordBoundary(s, k + 4)}
  IN  IF at = {} THEN Null
      ELSE SubSeq(s, CHOOSE k \in at : \A h \in at : k <= h,
                  (CHOOSE k \in at : \A h \in at : k <= h) + 3)

\* line.match(/\b(19|20)\d{2}\b/): the matched text of the leftmost match
\* from index i on, or Null
RECURSIVE YearMatch(_, _)
YearMatch(s, i) ==
  IF i > Len(s) THEN Null
  ELSE IF /\ WordBoundary(s, i)
          /\ Year4(s, i) # 0
          /\ SubSeq(s, i, i + 1) \in {Chars("19"), Chars("20")}
          /\ WordBoundary(s, i + 4)
  THEN SubSeq(s, i, i + 3)
  ELSE YearMatch(s, i + 1)

looksLikeDegree(line) == Len(line) > 5 /\ NoBulletStart(line, {"-", Bullet, "*"})

\* .split(/\s*[\|@,]\s*/).map(p => p.trim()).filter(p => p && p.length > 1)
degreeParts(s) ==
  SelectSeq(mapTrim(SplitParts(s, 1, 1, FALSE)), LAMBDA p : Len(p) > 1)

NewEdu == [degree |-> <<>>, institution |-> <<>>, year |-> <<>>]

\* the new entry after the line that starts it was parsed (lines 525-563)
EduOfLine(line, yearMatch) ==
  LET parts == IF yearMatch # Null THEN degreeParts(trim(removeFirst(line, yearMatch)))
               ELSE degreeParts(line)
  IN  IF yearMatch # Null
      THEN (IF Len(parts) >= 2
            THEN [degree |-> parts[1], institution |-> parts[2], year |-> yearMatch]
            ELSE IF Len(parts) = 1
            THEN [NewEdu EXCEPT !.degree = parts[1], !.year = yearMatch]
            ELSE [NewEdu EXCEPT !.year = yearMatch])
      ELSE (IF Len(parts) >= 2
            THEN [NewEdu EXCEPT !.degree = parts[1], !.institution = parts[2]]
            ELSE [NewEdu EXCEPT !.degree = line])

\* the loop variables of extractEducation before the first line.  currentEdu
\* is <<>> for null and <<entry>> otherwise; done is set by a break.
EducationStart == [i |-> 1, currentEdu |-> <<>>, education |-> <<>>, done |-> FALSE]

\* the loop variables when the pass that started edu ends, the look-ahead
\* having consumed skip more lines
startedEdu(st, edu, skip) == [st EXCEPT !.i = @ + 1 + skip, !.currentEdu = <<edu>>]

\* the look-ahead of lines 565-609
EduLookAhead(lines, st, edu) ==
  LET nextLine == trim(lines[st.i + 1])
      nextYearMatch == YearMatch(nextLine, 1)
      rest == trim(removeFirst(nextLine, nextYearMatch))
      thirdYearMatch == IF st.i + 2 <= Len(lines) /\ Len(edu.year) = 0
                        THEN YearMatch(trim(lines[st.i + 2]), 1) ELSE Null
  IN  IF ~(st.i + 1 <= Len(lines) /\ Len(nextLine) > 0 /\ Len(nextLine) < 150)
      THEN startedEdu(st, edu, 0)
      ELSE IF Len(edu.institution) = 0 /\ NoBulletStart(nextLine, {"-", Bullet})
      THEN IF nextYearMatch # Null /\ Len(edu.year) = 0
           THEN startedEdu(st, [edu EXCEPT !.year = nextYearMatch,
                                  !.institution = IF Len(rest) > 0
                                                  THEN stripSeparators(rest) ELSE @], 1)
           ELSE IF nextYearMatch = Null
           THEN (IF thirdYearMatch # Null
                 THEN startedEdu(st, [edu EXCEPT !.institution = nextLine,
                                                 !.year = thirdYearMatch], 2)
                 ELSE startedEdu(st, [edu EXCEPT !.institution = nextLine], 1))
           ELSE startedEdu(st, edu, 0)
      ELSE IF Len(edu.year) = 0 /\ nextYearMatch # Null
      THEN startedEdu(st, [edu EXCEPT !.year = nextYearMatch], 1)
      ELSE startedEdu(st, edu, 0)

\* lines 519-522, and lines 614-616 where the cap is not tested
saveEdu(st) ==
  IF Len(st.currentEdu) > 0 /\ Len(st.currentEdu[1].degree) > 0
  THEN [st EXCEPT !.education = Append(@, st.currentEdu[1]),
                  !.done = Len(st.education) + 1 >= 3]
  ELSE st

\* lines 517-610, saved being the variables after the previous entry was saved
eduStep(lines, st, saved, line) ==
  IF ~looksLikeDegree(line) THEN [st EXCEPT !.i = @ + 1]
  ELSE IF saved.done THEN saved
  ELSE EduLookAhead(lines, saved, EduOfLine(line, YearMatch(line, 1)))

\* the for loop of extractEducation: the variables when it ends
RECURSIVE EducationLoop(_, _)
EducationLoop(lines, st) ==
  IF st.done \/ st.i > Len(lines) THEN st
  ELSE IF Len(trim(lines[st.i])) = 0 THEN EducationLoop(lines, [st EXCEPT !.i = @ + 1])
  ELSE IF IsReferencesLine(trim(lines[st.i])) THEN st
  ELSE EducationLoop(lines, eduStep(lines, st, saveEdu(st), trim(lines[st.i])))

\* the education array after the last entry was saved (lines 613-616)
EducationEntries(text) ==
  saveEdu(EducationLoop(splitLines(text), EducationStart)).education

extractEducation(text) ==
  IF Len(text) = 0 THEN <<>> ELSE slice(EducationEntries(text), 3)

(***************************************************************************)
(* parseCV                                                                 *)
(***************************************************************************)
EmailClass == WordChar \cup {".", "-"}

\* the last "." of s, from d down to a + 1, that has two word characters after
\* it; 0 when there is none
RECURSIVE LastDomainDot(_, _, _)
LastDomainDot(s, a, d) ==
  IF d <= a THEN 0
  ELSE IF s[d] = "." /\ d + 2 <= Len(s) /\ s[d + 1] \in WordChar /\ s[d + 2] \in WordChar
  THEN d
  ELSE LastDomainDot(s, a, d - 1)

\* /[\w\.-]+@[\w\.-]+\.\w{2,}/i at index i
EmailEnd(s, i) ==
  LET at == RunEnd(s, i, EmailClass)
      d == LastDomainDot(s, at + 1, RunEnd(s, at + 1, EmailClass) - 1)
  IN  IF s[i] \notin EmailClass \/ at > Len(s) THEN 0
      ELSE IF s[at] # "@" \/ d = 0 THEN 0
      ELSE RunEnd(s, d + 1, WordChar)

PhoneClass == Digit \cup Whitespace \cup {"-", "(", ")"}

\* /[\+]?[(]?[\d\s\-\(\)]{10,}[)]?/ at index i: the class holds both brackets
PhoneEnd(s, i) ==
  LET r == RunEnd(s, SkipIn(s, i, {"+"}), PhoneClass)
  IN  IF r - SkipIn(s, i, {"+"}) >= 10 THEN r ELSE 0

\* the optional text t at index i of the lower-cased string: the index after it
Optional(lower, t, i) == IF OccursAt(lower, t, i) THEN i + Len(t) ELSE i

\* /(?:https?:\/\/)?(?:www\.)?linkedin\.com\/in\/[\w\-]+/i at index i
LinkedinEnd(s, lower, i) ==
  LET a == Optional(lower, Chars("www."),
             IF OccursAt(lower, Chars("https://"), i) THEN i + Len(Chars("https://"))
             ELSE Optional(lower, Chars("http://"), i))
      b == a + Len(Chars("linkedin.com/in/"))
      r == RunEnd(s, b, WordChar \cup {"-"})
  IN  IF OccursAt(lower, Chars("linkedin.com/in/"), a) /\ r > b THEN r ELSE 0

\* the three patterns of parseCV at index i, lower being s in lower case
FieldEnd(s, lower, field, i) ==
  CASE field = "email" -> EmailEnd(s, i)
    [] field = "phone" -> PhoneEnd(s, i)
    [] field = "linkedin" -> LinkedinEnd(s, lower, i)

\* the indices of s at which the pattern matches
FieldStarts(s, lower, field) == {i \in 1..Len(s) : FieldEnd(s, lower, field, i) # 0}

\* the text of the leftmost match, which starts at the least of starts, or
\* Null when starts is empty
MatchOf(s, lower, field, starts) ==
  LET first == CHOOSE i \in starts : \A j \in starts : i <= j
  IN  IF starts = {} THEN Null ELSE SubSeq(s, first, FieldEnd(s, lower, field, first) - 1)

\* text.match(pattern) for the three patterns of parseCV
FieldMatch(s, field) ==
  MatchOf(s, toLowerCase(s), field, FieldStarts(s, toLowerCase(s), field))

\* match ? match[0] : ""
matchOrEmpty(match) == IF match = Null THEN <<>> ELSE match

\* phoneMatch ? phoneMatch[0] : "", the trim of line 148 left out
phoneUntrimmed(phoneMatch) == matchOrEmpty(phoneMatch)

\* phoneMatch ? phoneMatch[0].trim() : ""
phoneOf(phoneMatch) == IF phoneMatch = Null THEN <<>> ELSE trim(phoneMatch)

\* text.split("\n").filter((line) => line.trim())
contentLines(text) == SelectSeq(splitLines(text), LAMBDA line : Len(trim(line)) > 0)

\* lines[0]
firstLine(lines) == IF Len(lines) >= 1 THEN lines[1] ELSE Undefined

\* lines[0] without the || ""
nameUnguarded(lines) == firstLine(lines)

\* lines[0] || ""
extractName(lines) ==
  IF firstLine(lines) = Undefined \/ Len(firstLine(lines)) = 0 THEN <<>>
  ELSE firstLine(lines)

SkillsAliases == <<Chars("skills"), Chars("technical skills"), Chars("core competencies")>>
ExperienceAliases ==
  <<Chars("experience"), Chars("work experience"), Chars("employment"),
    Chars("professional experience")>>
EducationAliases == <<Chars("education"), Chars("academic background")>>
SummaryAliases == <<Chars("summary"), Chars("objective"), Chars("profile"), Chars("about")>>

\* lines 190-195
extractSummary(summarySection) ==
  trim(join(SelectSeq(mapTrim(splitLines(summarySection)), LAMBDA line : Len(line) > 0),
            <<" ">>))

parseCV(text) ==
  [personalInfo |->
     [name |-> extractName(contentLines(text)),
      email |-> matchOrEmpty(FieldMatch(text, "email")),
      phone |-> phoneOf(FieldMatch(text, "phone")),
      location |-> <<>>,
      linkedin |-> matchOrEmpty(FieldMatch(text, "linkedin"))],
   summary |-> extractSummary(extractSection(text, SummaryAliases)),
   experience |-> extractExperience(extractSection(text, ExperienceAliases)),
   skills |-> extractSkills(extractSection(text, SkillsAliases)),
   education |-> extractEducation(extractSection(text, EducationAliases))]

(***************************************************************************)
(* analyzeMatch.  A JavaScript number is a record: NaN has nan = TRUE and  *)
(* Infinity inf = TRUE.                                                    *)
(***************************************************************************)
Num(n) == [nan |-> FALSE, inf |-> FALSE, value |-> n]
NaN == [nan |-> TRUE, inf |-> FALSE, value |-> 0]

\* a < b
Less(a, b) == ~a.nan /\ ~b.nan /\ ~a.inf /\ (b.inf \/ a.value < b.value)

\* Math.min(a, b)
MathMin(a, b) == IF a.nan \/ b.nan THEN NaN ELSE IF Less(b, a) THEN b ELSE a

(***************************************************************************)
(* The arithmetic of Math.round((a / b) * 100) in doubles.  A positive     *)
(* double is an integer of 53 significant bits times a power of two; the   *)
(* integer is kept as five limbs, the first followed by four of 13 bits    *)
(* each (Limb is 2^13), so that no step passes 2^31 for counts below 2^17. *)
(***************************************************************************)
Limb == 8192

\* n / d = (n' / d') * 2^e with d' <= n' < 2d'
RECURSIVE Normalise(_, _, _)
Normalise(n, d, e) ==
  IF n >= 2 * d THEN Normalise(n, 2 * d, e + 1)
  ELSE IF n < d THEN Normalise(2 * n, d, e - 1)
  ELSE [n |-> n, d |-> d, e |-> e]

\* round to nearest, ties to even: the integer of the limbs plus a fraction
\* that is a half (half), more than a half (above) or less, rounded to a
\* multiple of unit, a power of two below Limb; what is added to the last
\* limb is carried up the limbs, and the first limb keeps what reaches it
RoundEven(limbs, unit, half, above) ==
  LET low == limbs[5] % unit
      odd == (limbs[5] \div unit) % 2 = 1
      up == \/ 2 * low > unit
            \/ 2 * low = unit /\ (half \/ above \/ odd)
            \/ unit = 1 /\ (above \/ (half /\ odd))
      s5 == limbs[5] - low + (IF up THEN unit ELSE 0)
      s4 == limbs[4] + s5 \div Limb
      s3 == limbs[3] + s4 \div Limb
      s2 == limbs[2] + s3 \div Limb
  IN  <<limbs[1] + s2 \div Limb, s2 % Limb, s3 % Limb, s4 % Limb, s5 % Limb>>

\* Math.round((a / b) * 100) for counts a and b: 0 / 0 is NaN, a / 0 is
\* Infinity; the quotient (by long division, a limb at a time) and the
\* product are each rounded to a double, and Math.round gives the integer
\* nearest to the product, a half going up
RoundPercent(a, b) ==
  IF b = 0 THEN (IF a = 0 THEN NaN ELSE [nan |-> FALSE, inf |-> TRUE, value |-> 0])
  ELSE IF a = 0 THEN Num(0)
  ELSE LET f == Normalise(a, b, 0)
           r1 == (f.n - f.d) * Limb
           r2 == (r1 % f.d) * Limb
           r3 == (r2 % f.d) * Limb
           r4 == (r3 % f.d) * Limb
           rest == r4 % f.d
           quotient == RoundEven(<<1, r1 \div f.d, r2 \div f.d, r3 \div f.d, r4 \div f.d>>,
                                 1, 2 * rest = f.d, 2 * rest > f.d)
           p5 == 100 * quotient[5]
           p4 == 100 * quotient[4] + p5 \div Limb
           p3 == 100 * quotient[3] + p4 \div Limb
           p2 == 100 * quotient[2] + p3 \div Limb
           p1 == 100 * quotient[1] + p2 \div Limb
           product == RoundEven(<<p1, p2 % Limb, p3 % Limb, p4 % Limb, p5 % Limb>>,
                                IF p1 >= 128 THEN 128 ELSE 64, FALSE, FALSE)
           \* x * 2^k, rounded down
           Shifted(x, k) ==
             IF k >= 0 THEN x * 2 ^ k ELSE IF k < -30 THEN 0 ELSE x \div 2 ^ (-k)
           \* the product is the integer of its limbs times 2^(f.e - 52);
           \* its integer part when its binary point is moved k places right
           Floor(k) ==
             Shifted(product[1], f.e + k) + Shifted(product[2], f.e + k - 13)
             + Shifted(product[3], f.e + k - 26) + Shifted(product[4], f.e + k - 39)
             + Shifted(product[5], f.e + k - 52)
       IN  Num(Floor(0) + (Floor(1) % 2))

\* natural.WordTokenizer: the maximal runs of word characters from index i on
RECURSIVE TokensFrom(_, _)
TokensFrom(s, i) ==
  LET a == IndexOfIn(s, WordChar, i)
  IN  IF a = 0 THEN <<>>
      ELSE <<SubSeq(s, a, RunEnd(s, a, WordChar) - 1)>>
           \o TokensFrom(s, RunEnd(s, a, WordChar))

\* natural.PorterStemmer.stem on the words the model's texts use (the stemmer
\* is a library; a word outside this table is its own stem, as it is for
\* "python", "sql" and "docker")
StemTable ==
  {<<Chars("skills"), Chars("skill")>>, <<Chars("managing"), Chars("manag")>>,
   <<Chars("management"), Chars("manag")>>, <<Chars("containers"), Chars("contain")>>}

stem(word) ==
  IF \E e \in StemTable : e[1] = word
  THEN (CHOOSE e \in StemTable : e[1] = word)[2]
  ELSE word

\* natural.stopwords: its entries of three or more letters that the model's
\* texts use
stopwords == {Chars("the"), Chars("and"), Chars("with"), Chars("for"), Chars("you")}

\* the words tokenizeAndStem stems: those of more than two characters
LongWords(text) == SelectSeq(TokensFrom(text, 1), LAMBDA word : Len(word) > 2)

\* lines 676-679
tokenizeAndStem(text) ==
  LET words == LongWords(text)
  IN  SelectSeq([i \in 1..Len(words) |-> stem(words[i])],
                LAMBDA word : word \notin stopwords)

generateMatchSuggestions(score, missingKeywords) ==
  <<IF Less(score, Num(30))
    THEN Chars("Your CV has low keyword overlap with the job description. Consider adding more relevant technical skills and experience.")
    ELSE IF Less(score, Num(60))
    THEN Chars("Good foundation, but you could improve keyword matching by incorporating more job-specific terms.")
    ELSE Chars("Excellent keyword alignment! Your CV matches well with the job requirements.")>>
  \o (IF Len(missingKeywords) > 0
      THEN <<Chars("Consider adding these keywords: ")
             \o join(slice(missingKeywords, 5), Chars(", "))>>
      ELSE <<>>)

\* a filter that keeps the words of three characters
longerThanTwoChars(word) == Len(word) > 2

\* word.length > 3
LongerThanThree(word) == Len(word) > 3

\* lines 653-668; a Set is kept as a sequence without repetition, in
\* insertion order
matchOf(cvWordSet, jdWordSet) ==
  LET intersection == SelectSeq(cvWordSet, LAMBDA x : has(jdWordSet, x))
      score == RoundPercent(Len(intersection), Len(jdWordSet))
      missingKeywords ==
        slice(SelectSeq(SelectSeq(jdWordSet, LAMBDA word : ~has(cvWordSet, word)),
                        LongerThanThree), 10)
  IN  [score |-> MathMin(score, Num(95)),
       missingKeywords |-> missingKeywords,
       suggestions |-> generateMatchSuggestions(score, missingKeywords)]

analyzeMatch(cvText, jobDescription) ==
  matchOf(unique(tokenizeAndStem(toLowerCase(cvText))),
          unique(tokenizeAndStem(toLowerCase(jobDescription))))

(***************************************************************************)
(* The branch without a job description                                    *)
(***************************************************************************)
ATS_KEYWORDS ==
  <<Chars("leadership"), Chars("management"), Chars("project management"),
    Chars("team leadership"), Chars("communication"), Chars("collaboration"),
    Chars("problem solving"), Chars("analytical"), Chars("strategic"),
    Chars("innovative"), Chars("results-driven"), Chars("data analysis"),
    Chars("software development"), Chars("programming"), Chars("database"),
    Chars("cloud"), Chars("agile"), Chars("scrum"), Chars("devops"),
    Chars("machine learning"), Chars("artificial intelligence")>>

generateGeneralSuggestions(text, data) ==
  (IF Len(data.personalInfo.email) = 0
   THEN <<Chars("Add a professional email address")>> ELSE <<>>)
  \o (IF Len(data.personalInfo.phone) = 0
      THEN <<Chars("Include your phone number")>> ELSE <<>>)
  \o (IF Len(data.skills) < 5
      THEN <<Chars("Add more relevant technical skills")>> ELSE <<>>)
  \o (IF Len(data.summary) = 0
      THEN <<Chars("Include a professional summary or objective statement")>> ELSE <<>>)
  \o (IF Len(data.experience) < 2
      THEN <<Chars("Add more work experience details")>> ELSE <<>>)

\* \d{n} at index a
DigitsAt(s, a, n) == a + n - 1 <= Len(s) /\ \A k \in a..(a + n - 1) : s[k] \in Digit

\* /\d{3}[-.]?\d{3}[-.]?\d{4}/ at index i
PhoneLikeAt(s, i) ==
  /\ DigitsAt(s, i, 3)
  /\ DigitsAt(s, SkipIn(s, i + 3, {"-", "."}), 3)
  /\ DigitsAt(s, SkipIn(s, SkipIn(s, i + 3, {"-", "."}) + 3, {"-", "."}), 4)

\* score += 10 when the element was found
points(found) == IF found THEN 10 ELSE 0

\* the first argument as it is, were Math.min left out
uncapped(a, b) == a

\* Math.min on integers
min(a, b) == IF a <= b THEN a ELSE b

\* lines 744-757, lowerText being text.toLowerCase()
scoreOf(text, lowerText) ==
  min(points(includes(lowerText, Chars("email")) \/ includes(text, <<"@">>))
      + points(\E i \in 1..Len(text) : PhoneLikeAt(text, i))
      + points(includes(lowerText, Chars("experience")))
      + points(includes(lowerText, Chars("education")))
      + points(includes(lowerText, Chars("skills")))
      + min(Len(SelectSeq(ATS_KEYWORDS, LAMBDA keyword : includes(lowerText, keyword))) * 5,
            40),
      90)

calculateATSScore(text) == Num(scoreOf(text, toLowerCase(text)))

(***************************************************************************)
(* CVAnalysis.calculateCompletenessScore (components/cv-analysis.js).  The *)
(* score is kept in sixths of a point, which holds (n / 3) * 20 and        *)
(* n * 7.5 exactly; the sum is half-way between two integers only when     *)
(* n / 3 is 0 or 1, where the code's doubles are exact too.                *)
(***************************************************************************)
\* the score before Math.min and Math.round, in sixths
completenessSixths(analysisData) ==
  40 * Len(SelectSeq(<<"name", "email", "phone">>,
                     LAMBDA field :
                       /\ Len(analysisData.personalInfo[field]) > 0
                       /\ analysisData.personalInfo[field] # Chars("Not provided")))
  + (IF Len(analysisData.summary) > 50 THEN 6 * 15 ELSE 0)
  + 6 * min(Len(analysisData.experience) * 10, 30)
  + 6 * min(Len(analysisData.skills) * 2, 20)
  + min(Len(analysisData.education) * 45, 6 * 15)

\* rounding down, were Math.floor written for Math.round
floorSixths(n) == n \div 6

\* Math.round of n sixths: the integer nearest to it, a half going up
roundSixths(n) == (n + 3) \div 6

calculateCompletenessScore(analysisData) ==
  Num(roundSixths(min(completenessSixths(analysisData), 6 * 100)))


(***************************************************************************)
(* CVProcessor.performJobMatching, the matcher of the Express server       *)
(***************************************************************************)
\* the tokenizer of the constructor: natural.WordTokenizer
tokenize(s) == TokensFrom(s, 1)

\* array.includes(token)
arrayIncludes(array, token) == \E i \in 1..Len(array) : array[i] = token

\* array.indexOf(token), from 0, for a token the array holds
arrayIndexOf(array, token) ==
  (CHOOSE i \in 1..Len(array) :
     array[i] = token /\ \A j \in 1..(i - 1) : array[j] # token) - 1

\* .filter((token, index, arr) => arr.indexOf(token) === index)
firstOccurrences(arr) ==
  LET kept == SelectSeq([i \in 1..Len(arr) |-> <<arr[i], i - 1>>],
                        LAMBDA e : arrayIndexOf(arr, e[1]) = e[2])
  IN  [i \in 1..Len(kept) |-> kept[i][1]]

matchingSuggestions ==
  <<Chars("Consider adding more relevant keywords from the job description"),
    Chars("Highlight specific achievements and metrics"),
    Chars("Tailor your experience descriptions to match job requirements")>>

\* the result built from the two token lists
jobMatchOf(cvTokens, jobTokens) ==
  LET matchingKeywords == SelectSeq(cvTokens, LAMBDA token : arrayIncludes(jobTokens, token))
  IN  [matchScore |-> RoundPercent(Len(matchingKeywords), Len(jobTokens)),
       matchingKeywords |-> slice(matchingKeywords, 10),
       missingKeywords |->
         slice(firstOccurrences(SelectSeq(jobTokens,
                 LAMBDA token : ~arrayIncludes(cvTokens, token))), 10),
       suggestions |-> matchingSuggestions]

performJobMatching(cvText, jobDescription) ==
  jobMatchOf(tokenize(toLowerCase(cvText)), tokenize(toLowerCase(jobDescription)))
(***************************************************************************)
(* The state: one request to a route, or one call of a function.           *)
(***************************************************************************)
VARIABLES
  file,            \* whether the form holds a "cv" file
  text,            \* extractedText, the argument of parseCV; cvText in a body
  jobDescription,  \* the form's jobDescription, "" when it has none
  pc,              \* where the handler (or the call) stands
  cvData,          \* what parseCV returned
  result,          \* matchScore, missingKeywords and suggestions
  status,          \* the HTTP status of the response, 0 before it is sent
  locals,          \* the local variables of a function whose loop is stepped,
                   \* or the promise a handler awaits
  tfidf            \* the documents of this.tfidf of one CVProcessor instance

vars == <<file, text, jobDescription, pc, cvData, result, status, locals, tfidf>>

NoData ==
  [personalInfo |-> [name |-> <<>>, email |-> <<>>, phone |-> <<>>,
                     location |-> <<>>, linkedin |-> <<>>],
   summary |-> <<>>, experience |-> <<>>, skills |-> <<>>, education |-> <<>>]

\* no function is being stepped
NoLocals == <<>>

\* lines 107-109
NoResult == [matchScore |-> Num(0), missingKeywords |-> <<>>, suggestions |-> <<>>]

\* the texts of at most n lines, each line one of V
TextsOf(V, n) == {join(ls, <<"\n">>) : ls \in UNION {[1..k -> V] : k \in 0..n}}

\* a request (or a call) with the given inputs, before anything ran
Start(files, texts, jobDescriptions, at) ==
  /\ file \in files
  /\ text \in texts
  /\ jobDescription \in jobDescriptions
  /\ pc = at
  /\ cvData = NoData
  /\ result = NoResult
  /\ status = 0
  /\ locals = NoLocals
  /\ tfidf = <<>>

(***************************************************************************)
(* POST (lines 58-137), from the point where the form was read (line 60).  *)
(* The handler is an async function: a step is what it does between two    *)
(* awaits, and the handler is off the stack while pc is "extracting" or    *)
(* "analyzeMatch".                                                         *)
(***************************************************************************)
\* lines 64-66
RejectNoFile ==
  /\ pc = "start" /\ ~file
  /\ status' = 400 /\ pc' = "responded"
  /\ UNCHANGED <<locals, tfidf, file, text, jobDescription, cvData, result>>

\* lines 64-94, up to the first await of the file's branch, or through to
\* line 96 when file.type is none of the three
Extract ==
  /\ pc = "start" /\ file
  /\ pc' \in {"extracting", "extracted"}
  /\ UNCHANGED <<locals, tfidf, file, text, jobDescription, cvData, result, status>>

\* lines 72-93 resumed: the parser gave the text of the file, any of texts
Extracted(texts) ==
  /\ pc = "extracting"
  /\ text' \in texts
  /\ pc' = "extracted"
  /\ UNCHANGED <<locals, tfidf, file, jobDescription, cvData, result, status>>

\* lines 72-93 resumed: the parser threw, and the catch of lines 130-136
\* answers
ExtractFail ==
  /\ pc = "extracting"
  /\ status' = 500 /\ pc' = "responded"
  /\ UNCHANGED <<locals, tfidf, file, text, jobDescription, cvData, result>>

\* lines 96-101
RejectNoText ==
  /\ pc = "extracted" /\ Len(trim(text)) = 0
  /\ status' = 400 /\ pc' = "responded"
  /\ UNCHANGED <<locals, tfidf, file, text, jobDescription, cvData, result>>

\* line 104
Parse ==
  /\ pc = "extracted" /\ Len(trim(text)) > 0
  /\ cvData' = parseCV(text)
  /\ pc' = "parsed"
  /\ UNCHANGED <<locals, tfidf, file, text, jobDescription, result, status>>

\* the score alone copied, lines 114-115 left out
matchedScoreOnly(analysis) ==
  [matchScore |-> analysis.score, missingKeywords |-> <<>>, suggestions |-> <<>>]

\* lines 113-115
matched(analysis) ==
  [matchScore |-> analysis.score,
   missingKeywords |-> analysis.missingKeywords,
   suggestions |-> analysis.suggestions]

\* lines 111-112, up to the await: analyzeMatch is called and runs to its
\* first await (lines 646 and 672)
Match ==
  /\ pc = "parsed" /\ Len(trim(jobDescription)) > 0
  /\ pc' = "analyzeMatch"
  /\ UNCHANGED <<locals, tfidf, file, text, jobDescription, cvData, result, status>>

\* lines 112-115 and 122-129, resumed with what analyzeMatch returned
MatchRespond ==
  /\ pc = "analyzeMatch"
  /\ result' = matched(analyzeMatch(text, jobDescription))
  /\ status' = 200 /\ pc' = "responded"
  /\ UNCHANGED <<locals, tfidf, file, text, jobDescription, cvData>>

\* lines 116-120 and 122-129
General ==
  /\ pc = "parsed" /\ Len(trim(jobDescription)) = 0
  /\ result' = [matchScore |-> calculateATSScore(text),
                missingKeywords |-> <<>>,
                suggestions |-> generateGeneralSuggestions(text, cvData)]
  /\ status' = 200 /\ pc' = "responded"
  /\ UNCHANGED <<locals, tfidf, file, text, jobDescription, cvData>>

(***************************************************************************)
(* A call of parseCV on any string                                         *)
(***************************************************************************)
CallParseCV ==
  /\ pc = "call"
  /\ cvData' = parseCV(text)
  /\ pc' = "returned"
  /\ UNCHANGED <<locals, tfidf, file, text, jobDescription, result, status>>

NextParse == CallParseCV

(***************************************************************************)
(* A call of one of the other functions: result holds what it returned     *)
(***************************************************************************)
CallExtractDuration ==
  /\ pc = "extractDuration"
  /\ result' = extractDuration(text)
  /\ pc' = "returned"
  /\ UNCHANGED <<locals, tfidf, file, text, jobDescription, cvData, status>>

\* the alias lists parseCV passes to extractSection
AliasLists == {SkillsAliases, ExperienceAliases, EducationAliases, SummaryAliases}

\* header is the line on which line 223 found the header (i + 1), or 0 when
\* the function returned from line 264
CallExtractSection ==
  /\ pc = "extractSection"
  /\ \E keywords \in AliasLists :
       result' = [keywords |-> keywords,
                  header |-> SectionHeader(splitLines(text), keywords, 1),
                  section |-> extractSection(text, keywords)]
  /\ pc' = "returned"
  /\ UNCHANGED <<locals, tfidf, file, text, jobDescription, cvData, status>>

CallCalculateATSScore ==
  /\ pc = "calculateATSScore"
  /\ result' = calculateATSScore(text)
  /\ pc' = "returned"
  /\ UNCHANGED <<locals, tfidf, file, text, jobDescription, cvData, status>>

\* cvData holds the argument, analysisData
CallCalculateCompletenessScore ==
  /\ pc = "calculateCompletenessScore"
  /\ result' = calculateCompletenessScore(cvData)
  /\ pc' = "returned"
  /\ UNCHANGED <<locals, tfidf, file, text, jobDescription, cvData, status>>


(***************************************************************************)
(* router.post('/match-job'): text holds req.body.cvText and               *)
(* jobDescription req.body.jobDescription                                  *)
(***************************************************************************)
\* a JSON number other than 0 in the body, where a string was expected
NumberValue == <<"<number>">>

\* !v for the values a body field takes here
Falsy(v) == v \in {Undefined, Null, <<>>}

HasToLowerCase(v) == v \notin {Undefined, Null, NumberValue}

\* routes/cv.ts lines 76-78
MatchJobReject ==
  /\ pc = "match-job"
  /\ Falsy(text) \/ Falsy(jobDescription)
  /\ status' = 400 /\ pc' = "responded"
  /\ UNCHANGED <<locals, tfidf, file, text, jobDescription, cvData, result>>

\* routes/cv.ts lines 80-81, up to the await: performJobMatching has no
\* await of its own and runs to its end in the call, and locals holds its
\* promise, fulfilled with the one value it returned or rejected with none;
\* toLowerCase is not a function of a number, and its catch (lines 180-183)
\* throws again
MatchJob ==
  /\ pc = "match-job"
  /\ ~Falsy(text) /\ ~Falsy(jobDescription)
  /\ locals' = IF HasToLowerCase(text) /\ HasToLowerCase(jobDescription)
                THEN [fulfilled |-> TRUE,
                      value |-> <<performJobMatching(text, jobDescription)>>]
                ELSE [fulfilled |-> FALSE, value |-> <<>>]
  /\ pc' = "performJobMatching"
  /\ UNCHANGED <<tfidf, file, text, jobDescription, cvData, result, status>>

\* routes/cv.ts lines 81-82, resumed with matchResult
MatchJobRespond ==
  /\ pc = "performJobMatching" /\ locals.fulfilled
  /\ result' = locals.value[1]
  /\ status' = 200 /\ pc' = "responded"
  /\ UNCHANGED <<locals, tfidf, file, text, jobDescription, cvData>>

\* routes/cv.ts lines 83-86, resumed with the error thrown
MatchJobFail ==
  /\ pc = "performJobMatching" /\ ~locals.fulfilled
  /\ status' = 500 /\ pc' = "responded"
  /\ UNCHANGED <<locals, tfidf, file, text, jobDescription, cvData, result>>

NextMatchJob == MatchJobReject \/ MatchJob \/ MatchJobRespond \/ MatchJobFail

(***************************************************************************)
(* CVAnalysis (components/cv-analysis.js): the formatting of what          *)
(* processCV extracted, and the insights drawn from the formatted data.    *)
(* personalInfo is an object and the lists are arrays, as processCV        *)
(* returns them; jobMatch is kept as a list, empty for null, else of the   *)
(* one object.                                                             *)
(***************************************************************************)
\* v || d
orElse(v, d) == IF Falsy(v) THEN d ELSE v

formatPersonalInfo(personalInfo) ==
  [name |-> orElse(personalInfo.name, Chars("Not provided")),
   email |-> orElse(personalInfo.email, Chars("Not provided")),
   phone |-> orElse(personalInfo.phone, Chars("Not provided")),
   location |-> orElse(personalInfo.location, Chars("Not provided")),
   linkedin |-> orElse(personalInfo.linkedin, Chars("Not provided"))]

formatSummary(summary) ==
  IF Falsy(summary) \/ Len(trim(summary)) = 0
  THEN Chars("No summary available. Consider adding a professional summary to your CV.")
  ELSE summary

formatExperience(experience) ==
  IF Len(experience) = 0
  THEN <<[title |-> Chars("No experience found"),
          company |-> Chars("Please ensure your CV includes work experience"),
          duration |-> Chars(""),
          description |->
            Chars("Add your work history with job titles, companies, and descriptions")]>>
  ELSE [k \in 1..Len(experience) |->
          [title |-> orElse(experience[k].title, Chars("Position not specified")),
           company |-> orElse(experience[k].company, Chars("Company not specified")),
           duration |-> orElse(experience[k].duration, Chars("Duration not specified")),
           description |-> orElse(experience[k].description, Chars("No description available"))]]

formatSkills(skills) ==
  IF Len(skills) = 0
  THEN <<Chars("No skills detected"), Chars("Please add a skills section to your CV")>>
  ELSE LET uniqueSkills ==
             unique(SelectSeq(skills, LAMBDA skill : ~Falsy(skill) /\ Len(trim(skill)) # 0))
       IN  IF Len(uniqueSkills) > 0 THEN uniqueSkills ELSE <<Chars("No skills detected")>>

formatEducation(education) ==
  IF Len(education) = 0
  THEN <<[degree |-> Chars("No education found"),
          institution |-> Chars("Please add your educational background"),
          year |-> Chars("")]>>
  ELSE [k \in 1..Len(education) |->
          [degree |-> orElse(education[k].degree, Chars("Degree not specified")),
           institution |-> orElse(education[k].institution, Chars("Institution not specified")),
           year |-> orElse(education[k].year, Chars("Year not specified"))]]

\* jobMatch.matchScore || 0 is 0 for NaN
formatJobMatch(jobMatch) ==
  IF Len(jobMatch) = 0
  THEN [matchScore |-> Num(0), matchingKeywords |-> <<>>, missingKeywords |-> <<>>,
        suggestions |-> <<Chars("Upload a job description to get matching analysis")>>]
  ELSE [matchScore |-> IF jobMatch[1].matchScore.nan THEN Num(0) ELSE jobMatch[1].matchScore,
        matchingKeywords |-> jobMatch[1].matchingKeywords,
        missingKeywords |-> jobMatch[1].missingKeywords,
        suggestions |-> jobMatch[1].suggestions]

formatAnalysisResult(analysisData) ==
  [personalInfo |-> formatPersonalInfo(analysisData.personalInfo),
   summary |-> formatSummary(analysisData.summary),
   experience |-> formatExperience(analysisData.experience),
   skills |-> formatSkills(analysisData.skills),
   education |-> formatEducation(analysisData.education),
   jobMatch |-> formatJobMatch(analysisData.jobMatch)]

\* lines 118-122
ExpandSkills ==
  [type |-> "suggestion", title |-> "Expand Your Skills Section",
   message |-> Chars("Consider adding more relevant skills to improve your CV's impact.")]

\* lines 127-131
NoWorkExperience ==
  [type |-> "critical", title |-> "No Work Experience Found",
   message |-> Chars("Add your work experience to make your CV more compelling.")]

generateInsights(analysisData) ==
  LET missingPersonalInfo ==
        SelectSeq(<<"name", "email", "phone">>,
                  LAMBDA field : \/ Falsy(analysisData.personalInfo[field])
                                 \/ analysisData.personalInfo[field] = Chars("Not provided"))
      pushWhen(condition, insight) == IF condition THEN <<insight>> ELSE <<>>
  IN  pushWhen(Len(missingPersonalInfo) > 0,
               [type |-> "warning", title |-> "Incomplete Contact Information",
                message |->
                  Chars("Missing: ")
                  \o join([k \in 1..Len(missingPersonalInfo) |-> Chars(missingPersonalInfo[k])],
                          Chars(", "))
                  \o Chars(". Complete contact info is essential.")])
      \o pushWhen(Len(analysisData.skills) < 5, ExpandSkills)
      \o pushWhen(Len(analysisData.experience) = 0, NoWorkExperience)
      \o pushWhen(Less(analysisData.jobMatch.matchScore, Num(50)),
                  [type |-> "improvement", title |-> "Low Job Match Score",
                   message |->
                     Chars("Consider tailoring your CV more closely to the job requirements.")])

(***************************************************************************)
(* CVProcessor.extractKeywords of the image processor.  The documents of   *)
(* this.tfidf (natural.TfIdf) are kept as the token lists that were added; *)
(* doc.text() is the text the document was made of.                        *)
(***************************************************************************)
\* lines 236-241
filteredTokens(docText) ==
  LET stopWords ==
        <<Chars("the"), Chars("a"), Chars("an"), Chars("and"), Chars("or"), Chars("but"),
          Chars("in"), Chars("on"), Chars("at"), Chars("to"), Chars("for"), Chars("of"),
          Chars("with"), Chars("by")>>
  IN  SelectSeq(tokenize(toLowerCase(docText)),
                LAMBDA token : Len(token) > 3 /\ ~has(stopWords, token))

\* TfIdf.idf times 10000: 10000 * (1 + Math.log(N / (1 + df))) to the nearest
\* integer, at [N][df], N documents of which df hold the term
IdfTable ==
  <<<<3069>>,
    <<10000, 5945>>,
    <<14055, 10000, 7123>>,
    <<16931, 12877, 10000, 7769>>,
    <<19163, 15108, 12231, 10000, 8177>>>>

\* TfIdf.listTerms(d), d counted from 0: the terms of document d in the order
\* of their keys, sorted by (x, y) => y.tfidf - x.tfidf, equal ones staying in
\* the order they had; tfidf is tf, the count of the term in the document,
\* times idf
listTerms(documents, d) ==
  LET terms == unique(documents[d + 1])
      tf(term) == Len(SelectSeq(documents[d + 1], LAMBDA t : t = term))
      idf(term) ==
        IdfTable[Len(documents)]
                [Cardinality({k \in 1..Len(documents) : has(documents[k], term)})]
      measures == [k \in 1..Len(terms) |-> tf(terms[k]) * idf(terms[k])]
      before(j, k) == measures[j] > measures[k] \/ (measures[j] = measures[k] /\ j < k)
      rank(k) == Cardinality({j \in 1..Len(terms) : before(j, k)})
  IN  [p \in 1..Len(terms) |-> terms[CHOOSE k \in 1..Len(terms) : rank(k) = p - 1]]

\* what extractKeywords returns on an instance that holds the documents:
\* lines 244-249
extractKeywords(documents, docText) ==
  slice(listTerms(Append(documents, filteredTokens(docText)), 0), 10)
(***************************************************************************)
(* Inputs                                                                  *)
(***************************************************************************)
MaxLines == 3
MaxBlankRuns == 3
MaxSkillLines == 3
MaxEntryLines == 6
MaxSectionLines == 3
MaxJobWords == 3

ScenarioA ==
  Chars("John Smith\njohn@x.com\n555-123-4567\n\nSKILLS\nPython, Go, SQL\n\nEXPERIENCE\nSoftware Engineer\nAcme Corp\n2020 - 2022\nBuilt things.\n\nEDUCATION\nBS Computer Science\nMIT\n2019")

GeneralLines ==
  {Chars(""), Chars("  \t"), Chars("Jane Doe jane@x.org +1 (555) 123-4567"),
   Chars("Technical Skills"), Chars("Python, Go; SQL | and"),
   Chars("Experience:"), Chars("Dev | Acme, Inc Jan 2020 - Present"),
   Chars("- Built things at linkedin.com/in/jane-doe"),
   Chars("Education"), Chars("BSc CS, MIT 2019"), Chars("Profile")}

\* any string: Scenario A and the texts of a few lines
ParseTexts == {ScenarioA} \cup TextsOf(GeneralLines, MaxLines)

\* strings of whitespace only, of up to 5 * MaxBlankRuns characters
BlankTexts ==
  {join(ls, <<>>) :
     ls \in UNION {[1..k -> {Chars(" "), Chars("\t"), Chars("\n"), Chars("     ")}] :
                     k \in 0..MaxBlankRuns}}

SkillLines ==
  {Chars("a1, a2, a3, a4, a5, a6, a7, a8, a9, b0, b1"),
   Chars("c1; c2; c3; c4; c5; c6; c7; c8; c9; d0; d1; a1"),
   Chars("e1 | e2 | e3 | e4 | e5 | e6 | e7 | e8 | e9 | f0 | f1 | c1"),
   Chars("- Skills: c1, a1, g1, e1, and, x, g1"),
   Chars("Tools: h1"),
   Chars("* Technologies- Using | REFEREES; The, x ,Designing and running continuous delivery pipelines for AWS, Designing and operating continuous delivery pipelines on GCP")}

\* a Skills section of up to MaxSkillLines lines
SkillTexts ==
  {Chars("Skills\n") \o body : body \in TextsOf(SkillLines, MaxSkillLines)}

\* an Experience and an Education section of up to MaxEntryLines lines each,
\* the lines of both of the same three shapes: a whole entry on one line, a
\* heading that takes the next line, a bullet
EntryShapes == {1, 2, 3}
ExperienceShape == <<Chars("Dev | Acme 2020 - 2022"), Chars("Team Lead"), Chars("- shipped it")>>
EducationShape == <<Chars("BSc CS, MIT 2019"), Chars("Diploma in Arts"), Chars("- honours")>>

EntryTexts ==
  {Chars("Experience\n")
     \o join([i \in 1..Len(shapes) |-> ExperienceShape[shapes[i]]], <<"\n">>)
     \o Chars("\nEducation\n")
     \o join([i \in 1..Len(shapes) |-> EducationShape[shapes[i]]], <<"\n">>) :
   shapes \in UNION {[1..k -> EntryShapes] : k \in 0..MaxEntryLines}}

TerminatorLines ==
  {Chars("References"), Chars("referees: on request"),
   Chars("CV - References available upon request"), Chars("Projects")}

SectionKinds ==
  {[header |-> Chars("Skills"), lines |-> {Chars("Python, Go"), Chars("Zeta; Yacc")}],
   [header |-> Chars("Work Experience"),
    lines |-> {Chars("Dev | Acme 2020 - 2022"), Chars("- Built things")}],
   [header |-> Chars("EDUCATION:"),
    lines |-> {Chars("BSc CS, MIT 2019"), Chars("Diploma in Arts")}]}

\* one section of up to MaxSectionLines lines, terminator lines among them
SectionTexts ==
  UNION {{kind.header \o <<"\n">> \o body :
            body \in TextsOf(kind.lines \cup TerminatorLines, MaxSectionLines)} :
         kind \in SectionKinds}

\* the words of a job description; one of them is a run of twelve names, so
\* that a description can hold more than ten missing keywords, and one is
\* white space
JobWords ==
  {Chars("Python"), Chars("SQL"), Chars("Docker"), Chars("the"), Chars("Go"),
   Chars("managing"), Chars("&"), Chars("\t"),
   Chars("linux react java rust perl swift scala kotlin nginx mongo kafka spark")}

\* job descriptions of up to MaxJobWords words
JobTexts ==
  {join(ws, <<" ">>) : ws \in UNION {[1..k -> JobWords] : k \in 0..MaxJobWords}}

CVTexts ==
  {Chars(""), Chars("Python"), Chars("Management of SQL and Docker\njo@x.io 555-123-4567")}

\* date ranges of the six forms
RangeForms ==
  {[start |-> Chars("Jan 2020"), ends |-> {Chars("Dec 2023"), Chars("Present")}],
   [start |-> Chars("2020"), ends |-> {Chars("2023"), Chars("present")}],
   [start |-> Chars("01/2020"), ends |-> {Chars("12/2023"), Chars("Present")}]}

\* a hyphen or a dash, with or without spaces around it, and the word to
RangeWords ==
  {before \o dash \o after :
     before \in {Chars(""), Chars(" ")}, dash \in {<<"-">>, <<EnDash>>, <<EmDash>>},
     after \in {Chars(""), Chars(" ")}}
    \cup {Chars(" to ")}

Ranges ==
  UNION {{form.start \o word \o end : word \in RangeWords, end \in form.ends} :
         form \in RangeForms}

\* what a line holds before its range
RangePrefixes == {Chars(""), Chars("Dev, Acme ")}

\* one range of each form, and lines that hold two of them or none
PlainRanges ==
  {Chars("Jan 2020 - Dec 2023"), Chars("March 2021 - Present"), Chars("2018 - 2019"),
   Chars("2017 - present"), Chars("01/2015 - 12/2016"), Chars("3/2014 - Present")}
TwoRanges == {a \o Chars(", ") \o b : a, b \in PlainRanges}
NoRanges == {Chars(""), Chars("Dev, Acme"), Chars("20201 - 2023x"), Chars("Jan 2020")}

DurationTexts ==
  {prefix \o range : prefix \in RangePrefixes, range \in Ranges}
    \cup TwoRanges \cup NoRanges

MaxLocatorLines == 3

LocatorLines ==
  {Chars("Experience"), Chars("Work Experience:"), Chars("Employment history"),
   Chars("Ten years of experience in building large distributed systems"),
   Chars("Dev | Acme 2020 - 2022"), Chars(" project "),
   Chars("REFERENCES: on request"), Chars("Work at Acme since 2019"),
   Chars("Skills")}

LocatorTexts == TextsOf(LocatorLines, MaxLocatorLines)

MaxScoredLines == 3

ScoredLines ==
  {Chars("jo@x.io 555.123.4567"), Chars("Email: none, tel 555-1234"),
   Chars("Experience, EDUCATION, Skills: agile scrum devops cloud"),
   Chars("team leadership, project management, data analysis"),
   Chars("Machine Learning programming"), Chars("Education")}

ScoredTexts == TextsOf(ScoredLines, MaxScoredLines)

MaxJobsListed == 4
MaxSkillsListed == 11
MaxDegreesListed == 3

\* the arrays of n copies of an entry, n from 0 to max
ListsOf(entry, max) == {[k \in 1..n |-> entry] : n \in 0..max}

\* analysis data with each personal field absent, a placeholder or present,
\* a summary of 0, 50 or 51 characters, and lists of every length
AnalysisData ==
  [personalInfo :
     [name : {Chars(""), Chars("Not provided"), Chars("Jo Doe")},
      email : {Chars(""), Chars("jo@x.io")},
      phone : {Chars("Not provided"), Chars("555-123-4567")},
      location : {Chars("")},
      linkedin : {Chars("")}],
   summary : {Chars(""), [k \in 1..50 |-> "a"], [k \in 1..51 |-> "a"]},
   experience : ListsOf([NewJob EXCEPT !.title = Chars("Dev")], MaxJobsListed),
   skills : ListsOf(Chars("Go"), MaxSkillsListed),
   education : ListsOf([NewEdu EXCEPT !.degree = Chars("BSc CS")], MaxDegreesListed)]


\* /match-job: CV texts of up to MaxCvWords words and job descriptions of up
\* to MaxRequiredWords words, and the bodies without a string in a field
MaxCvWords == 3
MaxRequiredWords == 2
CvWords == {Chars("Python"), Chars("python,"), Chars("SQL"), Chars("docker")}
RequiredWords == {Chars("Python"), Chars("sql"), Chars("&"), Chars("C++")}
WordsOf(V, n) == {join(ws, <<" ">>) : ws \in UNION {[1..k -> V] : k \in 0..n}}
BodyCvTexts == WordsOf(CvWords, MaxCvWords) \cup {Undefined, NumberValue}
BodyJobDescriptions == WordsOf(RequiredWords, MaxRequiredWords) \cup {Undefined, NumberValue}
(***************************************************************************)
(* Specifications                                                          *)
(***************************************************************************)
\* line 69: extractedText is "" until the text is extracted
Init == Start(BOOLEAN, {<<>>}, JobTexts, "start")
Next ==
  \/ RejectNoFile \/ Extract \/ Extracted(CVTexts) \/ ExtractFail
  \/ RejectNoText \/ Parse \/ Match \/ MatchRespond \/ General
Spec == Init /\ [][Next]_vars

InitParse == Start({TRUE}, ParseTexts, {<<>>}, "call")
SpecParse == InitParse /\ [][NextParse]_vars

InitBlank == Start({TRUE}, BlankTexts, {<<>>}, "call")
SpecBlank == InitBlank /\ [][NextParse]_vars

InitSkills == Start({TRUE}, SkillTexts, {<<>>}, "call")
SpecSkills == InitSkills /\ [][NextParse]_vars

InitEntries == Start({TRUE}, EntryTexts, {<<>>}, "call")
SpecEntries == InitEntries /\ [][NextParse]_vars

InitSections == Start({TRUE}, SectionTexts, {<<>>}, "call")
SpecSections == InitSections /\ [][NextParse]_vars

InitDuration == Start({TRUE}, DurationTexts, {<<>>}, "extractDuration")
SpecDuration == InitDuration /\ [][CallExtractDuration]_vars

InitSection == Start({TRUE}, LocatorTexts, {<<>>}, "extractSection")
SpecSection == InitSection /\ [][CallExtractSection]_vars

InitScore == Start({TRUE}, ScoredTexts, {<<>>}, "calculateATSScore")
SpecScore == InitScore /\ [][CallCalculateATSScore]_vars

InitCompleteness ==
  /\ file = TRUE
  /\ text = <<>>
  /\ jobDescription = <<>>
  /\ pc = "calculateCompletenessScore"
  /\ cvData \in AnalysisData
  /\ result = NoResult
  /\ status = 0
  /\ locals = NoLocals
  /\ tfidf = <<>>
SpecCompleteness == InitCompleteness /\ [][CallCalculateCompletenessScore]_vars


InitMatchJob == Start({TRUE}, BodyCvTexts, BodyJobDescriptions, "match-job")
SpecMatchJob == InitMatchJob /\ [][NextMatchJob]_vars
(***************************************************************************)
(* Properties.  parseCV has returned when pc = "returned"; POST has sent   *)
(* its result when pc = "responded" and status = 200.                      *)
(***************************************************************************)
\* the characters of a string
Char ==
  WordChar \cup Whitespace \cup {Bullet, EnDash, EmDash}
    \cup {"!", "#", "$", "%", "&", "'", "(", ")", "*", "+", ",", "-", ".", "/", ":",
          ";", "<", "=", ">", "?", "@", "[", "]", "^", "{", "|", "}", "~", "\"", "\\"}

\* a JavaScript string: every element is a character, so the value is neither
\* null nor undefined
IsString(x) == \A k \in 1..Len(x) : x[k] \in Char

\* a JavaScript array
IsArray(xs) == DOMAIN xs = 1..Len(xs)

\* a string of whitespace only, the empty string included
IsBlank(s) == \A k \in 1..Len(s) : s[k] \in Whitespace

\* C1: on Scenario A, parseCV returns the email john@x.com, the skills
\* Python, Go, SQL and nothing else, exactly one experience entry (title
\* Software Engineer, company Acme Corp, duration 2020 - 2022) and exactly one
\* education entry, of year 2019.
ScenarioAOutcome ==
  (pc = "returned" /\ text = ScenarioA) =>
    /\ cvData.personalInfo.email = Chars("john@x.com")
    /\ cvData.skills = <<Chars("Python"), Chars("Go"), Chars("SQL")>>
    /\ Len(cvData.experience) = 1
    /\ cvData.experience[1].title = Chars("Software Engineer")
    /\ cvData.experience[1].company = Chars("Acme Corp")
    /\ cvData.experience[1].duration = Chars("2020 - 2022")
    /\ Len(cvData.education) = 1
    /\ cvData.education[1].year = Chars("2019")

\* C2: for every CV text and every non-empty job description, the matchScore
\* that analyzeMatch produces is an integer from 0 to 95.
MatchScoreInRange ==
  (pc = "responded" /\ status = 200 /\ Len(trim(jobDescription)) > 0) =>
    /\ ~result.matchScore.nan
    /\ result.matchScore.value \in 0..95

\* C3: when the job description is empty, and whenever the set of its stems
\* is empty, the reported matchScore is 0 and not NaN.
EmptyJobScoresZero ==
  (/\ pc = "responded"
   /\ status = 200
   /\ Len(tokenizeAndStem(toLowerCase(jobDescription))) = 0) =>
    result.matchScore = Num(0)

\* C4: for every text, the experience list that parseCV returns has at most 5
\* entries and the education list at most 3.
CapInvariant ==
  pc = "returned" => Len(cvData.experience) <= 5 /\ Len(cvData.education) <= 3

\* C4's case: both loops collected more entries than the caps allow
CapReached ==
  /\ pc = "returned"
  /\ Len(ExperienceEntries(extractSection(text, ExperienceAliases))) > 5
  /\ Len(EducationEntries(extractSection(text, EducationAliases))) > 3
  /\ Len(cvData.experience) = 5
  /\ Len(cvData.education) = 3

\* the fragments extractSkills collects from the Skills section of a text
FragmentsOf(t) == SkillFragments(splitLines(extractSection(t, SkillsAliases)), 1)

\* the positions of F that hold a fragment no earlier position holds
FirstOccurrences(F) == {k \in 1..Len(F) : \A j \in 1..(k - 1) : F[j] # F[k]}

\* skills lists the first 30 distinct fragments of F in the order in which
\* they first occur
KeptInOrder(skills, F) ==
  /\ Len(skills) = IF Cardinality(FirstOccurrences(F)) <= 30
                   THEN Cardinality(FirstOccurrences(F)) ELSE 30
  /\ \A n \in 1..Len(skills) :
       \E k \in FirstOccurrences(F) :
         /\ skills[n] = F[k]
         /\ Cardinality({j \in FirstOccurrences(F) : j < k}) = n - 1

\* C5: for every text, the skills list that parseCV returns holds no two equal
\* strings, has at most 30 entries, and lists the first 30 distinct fragments
\* of the Skills section in the order of their first occurrence.
SkillsDistinctCapped ==
  pc = "returned" =>
    /\ \A a, b \in 1..Len(cvData.skills) :
         cvData.skills[a] = cvData.skills[b] => a = b
    /\ Len(cvData.skills) <= 30
    /\ KeptInOrder(cvData.skills, FragmentsOf(text))

\* C5's case: the section holds repeated fragments and more than 30 distinct
\* ones
SkillsOverflow ==
  /\ pc = "returned"
  /\ Cardinality(FirstOccurrences(FragmentsOf(text))) > 30
  /\ Len(FragmentsOf(text)) > Cardinality(FirstOccurrences(FragmentsOf(text)))
  /\ Len(cvData.skills) = 30

\* a references-terminator line, in lower case and trimmed: References or
\* Referees alone or followed by a colon, or a line that contains one of the
\* two phrases
IsTerminator(l) ==
  \/ l \in {Chars("references"), Chars("referees")}
  \/ startsWith(l, Chars("references:"))
  \/ startsWith(l, Chars("referees:"))
  \/ includes(l, Chars("available upon request"))
  \/ includes(l, Chars("references available"))

\* line t lies in the body of the section the keywords name: after its header
\* and with no header of another section in between
InBody(lines, keywords, t) ==
  /\ SectionHeader(lines, keywords, 1) # 0
  /\ SectionHeader(lines, keywords, 1) < t
  /\ \A j \in (SectionHeader(lines, keywords, 1) + 1)..(t - 1) :
       ~isNewSection(trim(lines[j]))

\* the text made of the lines before line t
Before(lines, t) == join(SubSeq(lines, 1, t - 1), <<"\n">>)

\* the three lists are what they would be if the text ended before line t,
\* for each of the three sections that has line t in its body
NothingFrom(lines, t) ==
  /\ InBody(lines, SkillsAliases, t) =>
       cvData.skills = extractSkills(extractSection(Before(lines, t), SkillsAliases))
  /\ InBody(lines, ExperienceAliases, t) =>
       cvData.experience =
         extractExperience(extractSection(Before(lines, t), ExperienceAliases))
  /\ InBody(lines, EducationAliases, t) =>
       cvData.education =
         extractEducation(extractSection(Before(lines, t), EducationAliases))

\* the references-terminator lines of a text
TerminatorsOf(lines) ==
  {t \in 1..Len(lines) : IsTerminator(toLowerCase(trim(lines[t])))}

\* C6: if a references-terminator line occurs in the body of the Skills,
\* Experience or Education section, nothing of that line or of a later line
\* of the section appears in the extracted skills, experience entries or
\* education entries: they are the ones of the text cut before that line.
ReferencesTerminate ==
  pc = "returned" =>
    \A t \in TerminatorsOf(splitLines(text)) : NothingFrom(splitLines(text), t)

\* C6's case: a terminator line in the body of the Experience section, a job
\* line after it and a job before it
ReferencesReached ==
  /\ pc = "returned"
  /\ Len(cvData.experience) > 0
  /\ \E t \in TerminatorsOf(splitLines(text)) :
       /\ InBody(splitLines(text), ExperienceAliases, t)
       /\ t < Len(splitLines(text))
       /\ Len(extractDuration(splitLines(text)[t + 1])) > 0

\* C7: for every string, parseCV returns a record whose name, email, phone,
\* location, linkedin and summary are strings, never null or undefined, and
\* whose experience, skills and education are arrays of which every entry's
\* fields are strings.
WellTyped ==
  pc = "returned" =>
    /\ \A f \in {"name", "email", "phone", "location", "linkedin"} :
         IsString(cvData.personalInfo[f])
    /\ IsString(cvData.summary)
    /\ IsArray(cvData.experience)
    /\ \A k \in 1..Len(cvData.experience) :
         \A f \in {"title", "company", "duration", "description"} :
           IsString(cvData.experience[k][f])
    /\ IsArray(cvData.skills)
    /\ \A k \in 1..Len(cvData.skills) : IsString(cvData.skills[k])
    /\ IsArray(cvData.education)
    /\ \A k \in 1..Len(cvData.education) :
         \A f \in {"degree", "institution", "year"} :
           IsString(cvData.education[k][f])

\* C7's case: the text has no line with content, so that lines[0] is
\* undefined, and no pattern matches, so that every match is null
NothingFound ==
  /\ pc = "returned"
  /\ firstLine(contentLines(text)) = Undefined
  /\ FieldMatch(text, "email") = Null
  /\ FieldMatch(text, "linkedin") = Null
  /\ cvData.personalInfo.name = <<>>
  /\ cvData.personalInfo.email = <<>>

\* C8: for the empty string and for a string of whitespace only, parseCV
\* returns name, email, phone, location, linkedin and summary all empty and
\* experience, skills and education all empty arrays.
BlankGivesEmptyRecord ==
  (pc = "returned" /\ IsBlank(text)) =>
    /\ \A f \in {"name", "email", "phone", "location", "linkedin"} :
         cvData.personalInfo[f] = <<>>
    /\ cvData.summary = <<>>
    /\ cvData.experience = <<>>
    /\ cvData.skills = <<>>
    /\ cvData.education = <<>>

\* C8's case: ten or more whitespace characters, which the phone pattern
\* matches
BlankPhoneMatched ==
  /\ pc = "returned"
  /\ IsBlank(text)
  /\ Len(text) >= 10
  /\ FieldMatch(text, "phone") # Null
  /\ cvData.personalInfo.phone = <<>>

\* Scenario C has been answered: the CV text Python and the job description
\* Python SQL Docker
ScenarioC ==
  /\ pc = "responded"
  /\ status = 200
  /\ text = Chars("Python")
  /\ jobDescription = Chars("Python SQL Docker")

\* C10, as the code has it: on Scenario C the matchScore is 33 and
\* missingKeywords is docker alone, sql being no longer than three characters.
ScenarioCOutcome ==
  ScenarioC =>
    /\ result.matchScore = Num(33)
    /\ result.missingKeywords = <<Chars("docker")>>

\* C10's case: Scenario C was answered with a score and a missing keyword
ScenarioCReached ==
  ScenarioC /\ ~result.matchScore.nan /\ Len(result.missingKeywords) > 0

\* C10, as it was stated: on Scenario C the matchScore is 33 and
\* missingKeywords contains the stems of both sql and docker.
ScenarioCBothMissing ==
  ScenarioC =>
    /\ result.matchScore = Num(33)
    /\ has(result.missingKeywords, Chars("sql"))
    /\ has(result.missingKeywords, Chars("docker"))

\* C11: for a range of each of the six forms whose start and end are
\* separated by a hyphen, an en dash, an em dash or the word to,
\* extractDuration returns the whole range.
WholeRangeReturned ==
  (pc = "returned") =>
    \A prefix \in RangePrefixes, range \in Ranges :
      text = prefix \o range => result = range

\* the least element of a non-empty set of numbers
Least(S) == CHOOSE i \in S : \A j \in S : i <= j

\* the aliases of a list for which some line of the text is a header
AliasesFound(lines, keywords) ==
  {k \in 1..Len(keywords) : \E i \in 1..Len(lines) : IsHeaderLine(lines[i], keywords[k])}

\* the lines that are a header for one alias
HeadersOf(lines, keyword) == {i \in 1..Len(lines) : IsHeaderLine(lines[i], keyword)}

\* with no alias found there is no header and no section; otherwise the
\* section is the one under the earliest header line of the first alias, in
\* list order, that has a header line
UnderFirstAlias(lines, keywords, found, header, section) ==
  IF found = {}
  THEN header = 0 /\ section = <<>>
  ELSE /\ header = Least(HeadersOf(lines, keywords[Least(found)]))
       /\ section = SectionBody(lines, header)

FirstAliasOf(lines, keywords, header, section) ==
  UnderFirstAlias(lines, keywords, AliasesFound(lines, keywords), header, section)

\* C12: extractSection returns the empty string when no line is a header for
\* any alias; otherwise it uses the first alias in list order that has a
\* header line, at that alias's earliest header line, even when a later alias
\* has a header line earlier in the text.
FirstAliasWins ==
  pc = "returned" =>
    FirstAliasOf(splitLines(text), result.keywords, result.header, result.section)

\* C12's case: a later alias has a header line before the line that was taken
LaterAliasEarlierLine ==
  /\ pc = "returned"
  /\ result.header > 1
  /\ Len(result.section) > 0
  /\ \E k \in AliasesFound(splitLines(text), result.keywords) :
       /\ k > Least(AliasesFound(splitLines(text), result.keywords))
       /\ Least(HeadersOf(splitLines(text), result.keywords[k])) < result.header

\* the section vocabulary as it is listed
ListedVocabulary ==
  {Chars("personal"), Chars("contact"), Chars("summary"), Chars("objective"),
   Chars("profile"), Chars("experience"), Chars("work"), Chars("employment"),
   Chars("education"), Chars("skills"), Chars("technical"), Chars("certifications"),
   Chars("projects"), Chars("awards"), Chars("languages"), Chars("interests"),
   Chars("hobbies"), Chars("publications"), Chars("volunteer")}

\* the words of the vocabulary that may end in s, without the s
SingularForms ==
  {Chars("certification"), Chars("project"), Chars("award"), Chars("language"),
   Chars("interest"), Chars("hobbie"), Chars("publication")}

\* the lines after the header that end a body: a references-terminator, or a
\* line that, trimmed and in lower case, is a word of V
EndersOf(lines, header, V) ==
  {j \in (header + 1)..Len(lines) :
     IsReferencesLine(trim(lines[j])) \/ toLowerCase(trim(lines[j])) \in V}

\* the section is the run of lines after the header up to and excluding the
\* first line that ends a body, or up to the last line when there is none
RunUpToEnder(lines, header, section, V) ==
  section =
    join(SubSeq(lines, header + 1,
                IF EndersOf(lines, header, V) = {} THEN Len(lines)
                ELSE Least(EndersOf(lines, header, V)) - 1),
         <<"\n">>)

\* C18, as the code has it: the body extractSection returns is the run of
\* lines after the header line up to and excluding the first later line that
\* is a references-terminator or that, trimmed, equals case-insensitively a
\* word of the vocabulary, the words that may end in s counting with and
\* without the s; no other line ends the body.
BodyEndsAtVocabulary ==
  (pc = "returned" /\ result.header # 0) =>
    RunUpToEnder(splitLines(text), result.header, result.section,
                 ListedVocabulary \cup SingularForms)

\* C18's case: a word without its s ended a body that holds a line, no
\* listed word and no references-terminator following the header
SingularEndsBody ==
  /\ pc = "returned"
  /\ result.header # 0
  /\ Len(result.section) > 0
  /\ EndersOf(splitLines(text), result.header, ListedVocabulary) = {}
  /\ EndersOf(splitLines(text), result.header, SingularForms) # {}

\* C18, as it was stated: only a references-terminator and the listed words
\* (certifications, projects, awards, languages, interests, hobbies,
\* publications in the plural) end the body.
BodyEndsAtListedWords ==
  (pc = "returned" /\ result.header # 0) =>
    RunUpToEnder(splitLines(text), result.header, result.section, ListedVocabulary)

\* a header match, as stated: the trimmed, lower-cased line equals the alias,
\* or starts with the alias and a colon or a space, or contains the alias
\* while the trimmed line is shorter than 50 characters
HeaderMatchOf(lower, alias) ==
  \/ lower = alias
  \/ startsWith(lower, alias \o <<":">>)
  \/ startsWith(lower, alias \o <<" ">>)
  \/ (includes(lower, alias) /\ Len(lower) < 50)

HeaderMatch(line, alias) == HeaderMatchOf(toLowerCase(trim(line)), alias)

\* some alias of the list has a header match in the line
MatchesSome(lower, keywords) ==
  \E k \in 1..Len(keywords) : HeaderMatchOf(lower, keywords[k])

\* the lines of 50 or more characters that contain an alias but do not start
\* with it
LongLinesWith(lines, keywords) ==
  {i \in 1..Len(lines) :
     /\ Len(trim(lines[i])) >= 50
     /\ \E k \in 1..Len(keywords) : includes(toLowerCase(lines[i]), keywords[k])
     /\ \A k \in 1..Len(keywords) : ~startsWith(toLowerCase(trim(lines[i])), keywords[k])}

\* the three parts of C19 for the lines of a text, an alias list and the
\* line taken as the header (0: none)
HeaderRuleOf(lines, keywords, header) ==
  /\ header # 0 <=>
       \E i \in 1..Len(lines) : MatchesSome(toLowerCase(trim(lines[i])), keywords)
  /\ header # 0 => MatchesSome(toLowerCase(trim(lines[header])), keywords)
  /\ header \notin LongLinesWith(lines, keywords)

\* C19: the line extractSection takes as the header is a header match for an
\* alias of the list, a header is found exactly when some line is a header
\* match for some alias, and a line of 50 or more characters that contains an
\* alias in its middle is never the header.
HeaderRule ==
  pc = "returned" => HeaderRuleOf(splitLines(text), result.keywords, result.header)

\* C19's case: the header was found after a long line that contains an alias
LongLineSkipped ==
  /\ pc = "returned"
  /\ result.header # 0
  /\ \E i \in LongLinesWith(splitLines(text), result.keywords) : i < result.header

\* 1 for a check that is met, 0 otherwise
Met(check) == IF check THEN 1 ELSE 0

\* how many of the five presence checks a text meets
ChecksMet(t) ==
  Met(includes(toLowerCase(t), Chars("email")) \/ has(t, "@"))
  + Met(\E i \in 1..Len(t) : PhoneLikeAt(t, i))
  + Met(includes(toLowerCase(t), Chars("experience")))
  + Met(includes(toLowerCase(t), Chars("education")))
  + Met(includes(toLowerCase(t), Chars("skills")))

\* how many vocabulary keywords occur in the lower-cased text
KeywordsIn(t) ==
  Cardinality({k \in 1..Len(ATS_KEYWORDS) : includes(toLowerCase(t), ATS_KEYWORDS[k])})

\* the least of a number and a cap
AtMost(n, cap) == IF n < cap THEN n ELSE cap

\* C13: calculateATSScore returns an integer from 0 to 90, the least of 90 and
\* ten points for each of the five presence checks that is met plus the least
\* of 40 and five points for each vocabulary keyword in the lower-cased text.
ATSScoreFormula ==
  pc = "returned" =>
    /\ result = Num(AtMost(10 * ChecksMet(text) + AtMost(5 * KeywordsIn(text), 40), 90))
    /\ result.value \in 0..90

\* C13's case: more than eight keywords, so that the cap of 40 applies, with
\* all five checks met
KeywordCapApplied ==
  /\ pc = "returned"
  /\ KeywordsIn(text) > 8
  /\ ChecksMet(text) = 5
  /\ result = Num(90)

\* the personal fields among name, email and phone that are present: not
\* empty and not the placeholder
FieldsPresent(data) ==
  {f \in {"name", "email", "phone"} :
     data.personalInfo[f] # <<>> /\ data.personalInfo[f] # Chars("Not provided")}

\* six times 20 * p/3 + (15 if the summary is longer than 50) + min(30, 10 * e)
\* + min(20, 2 * s) + min(15, 7.5 * d), capped at 100
WeightedSumSixths(data) ==
  AtMost(40 * Cardinality(FieldsPresent(data))
         + 90 * Met(Len(data.summary) > 50)
         + 6 * AtMost(10 * Len(data.experience), 30)
         + 6 * AtMost(2 * Len(data.skills), 20)
         + AtMost(45 * Len(data.education), 90),
         600)

\* n is the integer nearest to s sixths, a half going up
NearestTo(n, s) == 6 * n - 3 <= s /\ s < 6 * n + 3

\* C14: calculateCompletenessScore returns an integer from 0 to 100, the
\* rounded least of 100 and the weighted sum of the present personal fields,
\* the summary and the experience, skills and education counts.
CompletenessFormula ==
  pc = "returned" =>
    /\ ~result.nan
    /\ result.value \in 0..100
    /\ NearestTo(result.value, WeightedSumSixths(cvData))

\* C14's case: the sum is half-way between two integers and the lists are
\* longer than their caps count
HalfPointRounded ==
  /\ pc = "returned"
  /\ WeightedSumSixths(cvData) % 6 = 3
  /\ Len(cvData.experience) > 3
  /\ Len(cvData.skills) > 10
  /\ result.value * 6 = WeightedSumSixths(cvData) + 3

\* list holds the first cap elements of F at the positions P, in order
ListsFirst(list, F, P, cap) ==
  /\ Len(list) = AtMost(Cardinality(P), cap)
  /\ \A n \in 1..Len(list) :
       \E k \in P : list[n] = F[k] /\ Cardinality({j \in P : j < k}) = n - 1

\* the positions of the job-description stems jd at which a stem occurs for
\* the first time, is no stem of the CV and is longer than 3 characters
MissingPositions(jd, cv) ==
  {k \in FirstOccurrences(jd) : ~has(cv, jd[k]) /\ Len(jd[k]) > 3}

\* POST answered through analyzeMatch
Matched == pc = "responded" /\ status = 200 /\ Len(trim(jobDescription)) > 0

\* C15: the missingKeywords of analyzeMatch are the first 10, in order of
\* first occurrence in the job description, of the job-description stems that
\* are no CV stem and are longer than 3 characters; the list has at most 10
\* entries, no two equal, and none is a CV stem.
MissingKeywordsExact ==
  Matched =>
    /\ ListsFirst(result.missingKeywords,
                  tokenizeAndStem(toLowerCase(jobDescription)),
                  MissingPositions(tokenizeAndStem(toLowerCase(jobDescription)),
                                   tokenizeAndStem(toLowerCase(text))),
                  10)
    /\ Len(result.missingKeywords) <= 10
    /\ \A a, b \in 1..Len(result.missingKeywords) :
         result.missingKeywords[a] = result.missingKeywords[b] => a = b
    /\ \A a \in 1..Len(result.missingKeywords) :
         ~has(tokenizeAndStem(toLowerCase(text)), result.missingKeywords[a])

\* C15's case: more than ten stems are missing, one of them occurs twice in
\* the job description, and another stem is in the CV
MoreThanTenMissing ==
  /\ Matched
  /\ Cardinality(MissingPositions(tokenizeAndStem(toLowerCase(jobDescription)),
                                  tokenizeAndStem(toLowerCase(text)))) > 10
  /\ Cardinality(FirstOccurrences(tokenizeAndStem(toLowerCase(jobDescription))))
       < Len(tokenizeAndStem(toLowerCase(jobDescription)))
  /\ Len(result.missingKeywords) = 10

\* C16: after the text was extracted, if the job description has a character
\* that is not white space, matchScore, missingKeywords and suggestions are
\* those of analyzeMatch; otherwise matchScore is the ATS score, from 0 to 90,
\* suggestions are the general suggestions and missingKeywords is empty.
\* Exactly one of the two branches can run, and the record parseCV returned
\* is the extractedData in both.
OneBranchPerRequest ==
  [][/\ pc = "parsed" => Match # General
     /\ pc = "analyzeMatch" => MatchRespond
     /\ (Match \/ General \/ MatchRespond) => cvData' = parseCV(text)
     /\ Match =>
          \E k \in 1..Len(jobDescription) : jobDescription[k] \notin Whitespace
     /\ MatchRespond =>
          /\ \E k \in 1..Len(jobDescription) : jobDescription[k] \notin Whitespace
          /\ status' = 200
          /\ result'.matchScore = analyzeMatch(text, jobDescription).score
          /\ result'.missingKeywords = analyzeMatch(text, jobDescription).missingKeywords
          /\ result'.suggestions = analyzeMatch(text, jobDescription).suggestions
     /\ General =>
          /\ \A k \in 1..Len(jobDescription) : jobDescription[k] \in Whitespace
          /\ status' = 200
          /\ result'.matchScore = calculateATSScore(text)
          /\ result'.matchScore.value \in 0..90
          /\ result'.suggestions = generateGeneralSuggestions(text, cvData)
          /\ result'.missingKeywords = <<>>]_vars

\* C16's case: a job description of white space only was answered from the
\* general branch, with the record of a CV that has an email address
BlankDescriptionAnswered ==
  /\ pc = "responded"
  /\ status = 200
  /\ Len(jobDescription) > 0
  /\ IsBlank(jobDescription)
  /\ Len(cvData.personalInfo.email) > 0
  /\ Len(result.suggestions) > 0
  /\ result.matchScore.value > 0

\* C17: the matchScore that /match-job answers with is an integer from 0 to
\* 100, for every CV text and job description the route accepts
JobMatchScoreInRange ==
  (pc = "responded" /\ status = 200) =>
    /\ ~result.matchScore.nan
    /\ result.matchScore.value \in 0..100

\* the words C20 lists, in lower case
DroppedWords ==
  {Chars("and"), Chars("or"), Chars("the"), Chars("with"), Chars("using"),
   Chars("including"), Chars("available"), Chars("upon"), Chars("request"),
   Chars("referee"), Chars("referees")}

SkillDelimiters == {",", ";", "|", Bullet}

\* s is a trimmed fragment of one of the lines, 2 to 59 characters long, with
\* no delimiter in it, and in lower case none of the dropped words
CleanEntry(s, lines) ==
  /\ s = trim(s)
  /\ Len(s) >= 2
  /\ Len(s) <= 59
  /\ \A k \in 1..Len(s) : s[k] \notin SkillDelimiters
  /\ toLowerCase(s) \notin DroppedWords
  /\ \E i \in 1..Len(lines) : includes(lines[i], s)

CleanEntries(skills, lines) == \A n \in 1..Len(skills) : CleanEntry(skills[n], lines)

\* C20: every entry of the skills list is a trimmed fragment of one line of
\* the Skills section, 2 to 59 characters long, with none of the delimiters
\* in it, and in lower case it is none of the dropped words.
SkillEntriesClean ==
  pc = "returned" =>
    CleanEntries(cvData.skills, splitLines(extractSection(text, SkillsAliases)))

\* C20's case: the section holds dropped words in capitals, a fragment of one
\* character, one of 59 characters, which is kept, and one of 60, which is not
FragmentsFiltered ==
  /\ pc = "returned"
  /\ includes(extractSection(text, SkillsAliases), Chars("| REFEREES; The, x ,"))
  /\ includes(extractSection(text, SkillsAliases),
              Chars("Designing and operating continuous delivery pipelines on GCP"))
  /\ \E n \in 1..Len(cvData.skills) :
       cvData.skills[n] = Chars("Designing and running continuous delivery pipelines for AWS")
  /\ \A n \in 1..Len(cvData.skills) : Len(cvData.skills[n]) # 60


\* sections for extractExperience: none or all of the leading jobs, of one
\* line each, then up to MaxJobLines lines of any kind
MaxJobLines == 3
LeadingJobs ==
  <<Chars("Analyst | Acme 2011 - 2012"), Chars("Engineer | Bolt 2013 - 2014"),
    Chars("Manager | Core 2015 - 2016"), Chars("Director | Dune 2017 - 2018")>>
JobLines ==
  {Chars("Dev | Acme 2020 - 2022"), Chars("Team Lead"), Chars("- shipped it"),
   Chars("* led the team"), Chars("2019 - 2021"), Chars("References"),
   Chars("")}
ExperienceTexts ==
  {join(SubSeq(LeadingJobs, 1, k) \o ls, <<"\n">>) :
     k \in {0, Len(LeadingJobs)}, ls \in UNION {[1..n -> JobLines] : n \in 0..MaxJobLines}}

\* sections for extractEducation, of up to MaxDegreeLines lines
MaxDegreeLines == 3
DegreeLines ==
  {Chars("BSc CS, MIT 2019"), Chars("Diploma in Arts"), Chars("- honours 2001"),
   Chars("Oxford"), Chars("2021"), Chars("Class of 1850, room 20195"),
   Chars("Graduated 1998 and 2004"), Chars("2017 |")}
DegreeTexts == TextsOf(DegreeLines, MaxDegreeLines)

\* what processCV returns: each contact field found or not, a summary of one
\* character or of more than 50, up to MaxJobsFound experience entries, up to
\* MaxSkillsFound skills of the list of extractSkills and up to
\* MaxDegreesFound education entries
MaxJobsFound == 2
MaxSkillsFound == 6
MaxDegreesFound == 1
SkillsFound ==
  <<Chars("javascript"), Chars("python"), Chars("java"), Chars("sql"),
    Chars("git"), Chars("docker"), Chars("aws"), Chars("azure")>>
JobFound ==
  [title |-> Chars("Dev at Acme 2020"), company |-> Chars(""),
   duration |-> Chars(""), description |-> Chars("Dev at Acme 2020")]
DegreeFound == [degree |-> Chars("BSc CS 2019"), institution |-> Chars(""), year |-> Chars("")]
ProcessedCvs ==
  [personalInfo :
     [name : {Chars(""), Chars("Jo Doe")},
      email : {Chars(""), Chars("jo@x.io")},
      phone : {Chars(""), Chars("555-123-4567")},
      location : {Chars("")},
      linkedin : {Chars("")}],
   summary : {Chars("."),
              Chars("Jo Doe builds data pipelines in python and sql at Acme.")},
   experience : ListsOf(JobFound, MaxJobsFound),
   skills : {SubSeq(SkillsFound, 1, n) : n \in 0..min(MaxSkillsFound, Len(SkillsFound))},
   education : ListsOf(DegreeFound, MaxDegreesFound),
   extractedText : {Chars(""), Chars("python sql 2020")}]
FormJobDescriptions == {Undefined, Chars("  "), Chars("&"), Chars("python"), Chars("go rust sql")}

\* documents for extractKeywords: up to MaxKeywordWords words each, or one
\* of eleven keywords; an instance is given up to MaxDocuments documents
MaxKeywordWords == 2
MaxDocuments == 2
KeywordWords == {Chars("Python"), Chars("docker"), Chars("with"), Chars("sql")}
ElevenKeywords ==
  Chars("alpha bravo charlie delta echo1 foxtrot golf hotel india juliet kilo1")
KeywordTexts == WordsOf(KeywordWords, MaxKeywordWords) \cup {ElevenKeywords}
(***************************************************************************)
(* extractExperience, one pass of its loop at a time.  text is the         *)
(* argument.  locals.loop holds i, currentJob, descriptionLines,           *)
(* experiences and whether a break was taken.  Two fields record history   *)
(* for the properties and change nothing the function does: started lists  *)
(* the lines whose pass initialised currentJob (line 385), pushedFrom the  *)
(* line that started the job of every push onto experiences, in the order  *)
(* of the pushes.                                                          *)
(***************************************************************************)
\* whether the pass over the line at st.i reaches line 385
startsJob(lines, st) ==
  /\ Len(trim(lines[st.i])) > 0
  /\ ~IsReferencesLine(trim(lines[st.i]))
  /\ Len(extractDuration(trim(lines[st.i]))) > 0 \/ looksLikeTitle(trim(lines[st.i]))
  /\ ~saveJob(st).done

\* the history after the loop variables went from st to next
recorded(l, st, next, starts) ==
  [loop |-> next,
   started |-> IF starts THEN Append(l.started, st.i) ELSE l.started,
   pushedFrom |-> IF Len(next.experiences) > Len(st.experiences)
                  THEN Append(l.pushedFrom, l.started[Len(l.started)])
                  ELSE l.pushedFrom]

\* lines 331-342
ExperienceEnter ==
  /\ pc = "extractExperience"
  /\ IF Len(text) = 0
     THEN result' = <<>> /\ pc' = "returned" /\ UNCHANGED locals
     ELSE /\ locals' = [loop |-> ExperienceStart, started |-> <<>>, pushedFrom |-> <<>>]
          /\ pc' = "loop"
          /\ UNCHANGED result
  /\ UNCHANGED <<tfidf, file, text, jobDescription, cvData, status>>

\* lines 344-463, one pass
ExperiencePass ==
  /\ pc = "loop"
  /\ ~locals.loop.done /\ locals.loop.i <= Len(splitLines(text))
  /\ locals' = recorded(locals, locals.loop, experiencePass(splitLines(text), locals.loop),
                        startsJob(splitLines(text), locals.loop))
  /\ UNCHANGED <<tfidf, file, text, jobDescription, pc, cvData, result, status>>

\* lines 465-474, after the loop ended or a break left it
ExperienceReturn ==
  /\ pc = "loop"
  /\ locals.loop.done \/ locals.loop.i > Len(splitLines(text))
  /\ result' = experiencesReturned(locals.loop)
  /\ locals' = recorded(locals, locals.loop, saveJob(locals.loop), FALSE)
  /\ pc' = "returned"
  /\ UNCHANGED <<tfidf, file, text, jobDescription, cvData, status>>

NextExperience == ExperienceEnter \/ ExperiencePass \/ ExperienceReturn

CallExtractEducation ==
  /\ pc = "extractEducation"
  /\ result' = extractEducation(text)
  /\ pc' = "returned"
  /\ UNCHANGED <<locals, tfidf, file, text, jobDescription, cvData, status>>

(***************************************************************************)
(* router.post('/analyze-cv') of the Express server: file is whether a     *)
(* file was uploaded that validateFile accepts, cvData what processCV      *)
(* returned.  The response is kept without fileInfo and selectedTemplate.  *)
(***************************************************************************)
\* lines 28-39
AnalyzeReject ==
  /\ pc = "analyze-cv" /\ ~file
  /\ status' = 400 /\ pc' = "responded"
  /\ UNCHANGED <<locals, tfidf, file, text, jobDescription, cvData, result>>

\* lines 28-52, up to the await of processCV
ProcessCv ==
  /\ pc = "analyze-cv" /\ file
  /\ pc' = "processCV"
  /\ UNCHANGED <<locals, tfidf, file, text, jobDescription, cvData, result, status>>

\* lines 60-83 for what processCV returned (data) and jobMatch, null being
\* the empty list
analyzed(data, jobMatch) ==
  LET analysisResult ==
        formatAnalysisResult(
          [personalInfo |-> data.personalInfo,
           summary |-> data.summary,
           experience |-> data.experience,
           skills |-> data.skills,
           education |-> data.education,
           jobMatch |-> jobMatch])
  IN  [personalInfo |-> analysisResult.personalInfo,
       summary |-> analysisResult.summary,
       experience |-> analysisResult.experience,
       skills |-> analysisResult.skills,
       education |-> analysisResult.education,
       jobMatch |-> analysisResult.jobMatch,
       insights |-> generateInsights(analysisResult),
       completenessScore |-> calculateCompletenessScore(analysisResult),
       extractedText |-> data.extractedText]

\* lines 52-57, resumed with what processCV returned, any of cvs, when
\* jobDescription && jobDescription.trim(), up to the await of
\* performJobMatching, which runs to its end in the call: locals holds its
\* promise
AnalyzeMatchJob(cvs) ==
  /\ pc = "processCV"
  /\ ~Falsy(jobDescription) /\ Len(trim(jobDescription)) > 0
  /\ cvData' \in cvs
  /\ locals' = [fulfilled |-> TRUE,
                 value |-> <<performJobMatching(cvData'.extractedText, jobDescription)>>]
  /\ pc' = "performJobMatching"
  /\ UNCHANGED <<tfidf, file, text, jobDescription, result, status>>

\* lines 57-83, resumed with jobMatch
AnalyzeRespond ==
  /\ pc = "performJobMatching"
  /\ result' = analyzed(cvData, locals.value)
  /\ status' = 200 /\ pc' = "responded"
  /\ UNCHANGED <<locals, tfidf, file, text, jobDescription, cvData>>

\* lines 52-83, resumed with what processCV returned, any of cvs, when no
\* job description was given: jobMatch stays null
AnalyzeCv(cvs) ==
  /\ pc = "processCV"
  /\ ~(~Falsy(jobDescription) /\ Len(trim(jobDescription)) > 0)
  /\ cvData' \in cvs
  /\ result' = analyzed(cvData', <<>>)
  /\ status' = 200 /\ pc' = "responded"
  /\ UNCHANGED <<locals, tfidf, file, text, jobDescription>>



(***************************************************************************)
(* One CVProcessor instance of the image processor: text holds the text of *)
(* the document being analysed, tfidf the documents of this.tfidf          *)
(***************************************************************************)
\* new CVProcessor() (lines 9-13), then a document to analyse
Construct ==
  /\ pc = "returned"
  /\ tfidf' = <<>>
  /\ text' \in KeywordTexts
  /\ pc' = "extractKeywords"
  /\ UNCHANGED <<locals, file, jobDescription, cvData, result, status>>

\* performEnhancedAnalysis calls extractKeywords (line 181)
CallExtractKeywords ==
  /\ pc = "extractKeywords"
  /\ tfidf' = Append(tfidf, filteredTokens(text))
  /\ result' = extractKeywords(tfidf, text)
  /\ pc' = "returned"
  /\ UNCHANGED <<locals, file, text, jobDescription, cvData, status>>

\* the same instance is given another document
AnalyzeAnother ==
  /\ pc = "returned" /\ Len(tfidf) < MaxDocuments
  /\ text' \in KeywordTexts
  /\ pc' = "extractKeywords"
  /\ UNCHANGED <<locals, tfidf, file, jobDescription, cvData, result, status>>

NextKeywords == Construct \/ CallExtractKeywords \/ AnalyzeAnother

InitExperience == Start({TRUE}, ExperienceTexts, {<<>>}, "extractExperience")
SpecExperience == InitExperience /\ [][NextExperience]_vars

InitEducation == Start({TRUE}, DegreeTexts, {<<>>}, "extractEducation")
SpecEducation == InitEducation /\ [][CallExtractEducation]_vars

InitAnalyze ==
  /\ file \in BOOLEAN
  /\ text = <<>>
  /\ jobDescription \in FormJobDescriptions
  /\ pc = "analyze-cv"
  /\ cvData = NoData
  /\ result = NoResult
  /\ status = 0
  /\ locals = NoLocals
  /\ tfidf = <<>>
NextAnalyze ==
  \/ AnalyzeReject \/ ProcessCv \/ AnalyzeMatchJob(ProcessedCvs)
  \/ AnalyzeRespond \/ AnalyzeCv(ProcessedCvs)
SpecAnalyze == InitAnalyze /\ [][NextAnalyze]_vars

InitKeywords == Start({TRUE}, KeywordTexts, {<<>>}, "extractKeywords")
SpecKeywords == InitKeywords /\ [][NextKeywords]_vars

\* the two entry extractors, each on its own sections
InitExtractors == InitExperience \/ InitEducation
NextExtractors == NextExperience \/ CallExtractEducation
SpecExtractors == InitExtractors /\ [][NextExtractors]_vars

\* the stepped loop returns what the function returns
SteppedAsCalled ==
  (pc = "returned" /\ text \in ExperienceTexts) => result = extractExperience(text)

\* the title the job started by a line has (lines 394-417)
TitleFrom(line) == JobOfLine(trim(line), extractDuration(trim(line))).title

\* the lines, among those that started a job, whose job has a title
TitledOf(lines, origins) == SelectSeq(origins, LAMBDA t : Len(TitleFrom(lines[t])) > 0)

\* entries holds one entry for each line of origins, in that order, and the
\* lines of origins are in text order
OnePerLine(lines, entries, origins) ==
  /\ Len(entries) = Len(origins)
  /\ \A n \in 1..Len(origins) : entries[n].title = TitleFrom(lines[origins[n]])
  /\ \A a, b \in 1..Len(origins) : a < b => origins[a] < origins[b]

\* C21: the list extractExperience returns holds the jobs that were started
\* and have a title, one entry each, in the order of the lines that started
\* them; the entries are the first pushes onto the array, in their order, so
\* the job in progress when the input ends is in the list, and the job pushed
\* when the cap is reached is in it once.
EmittedOnceInOrder ==
  (pc = "returned" /\ Len(text) > 0) =>
    /\ OnePerLine(splitLines(text), result, TitledOf(splitLines(text), locals.started))
    /\ slice(locals.pushedFrom, 5) = TitledOf(splitLines(text), locals.started)

\* C21's case: the cap was reached, so that the fifth job was pushed at the
\* break and again after the loop, and it is the last entry of the list
PushedTwiceReturnedOnce ==
  /\ pc = "returned"
  /\ Len(text) > 0
  /\ Len(locals.pushedFrom) = 6
  /\ locals.pushedFrom[5] = locals.pushedFrom[6]
  /\ Len(result) = 5
  /\ result[5].title = Chars("Dev")

\* a job was in progress, with a description, when the input ended
EndedInProgress ==
  /\ pc = "returned"
  /\ Len(text) > 0
  /\ locals.loop.i > Len(splitLines(text))
  /\ Len(result) \in 1..4
  /\ Len(result[Len(result)].description) > 0

\* the characters that keep a line from being a title (lines 367-369)
TitleBullets == {"-", Bullet, "*"}

\* C22: when a pass starts a job and the next line starts with a bullet
\* character, the pass consumes the line of the job only: the next line is
\* left to the next pass.
BulletLineNotConsumed ==
  [][(/\ pc = "loop"
      /\ pc' = "loop"
      /\ startsJob(splitLines(text), locals.loop)
      /\ locals.loop.i + 1 <= Len(splitLines(text))
      /\ ~NoBulletStart(trim(splitLines(text)[locals.loop.i + 1]), TitleBullets))
     => locals'.loop.i = locals.loop.i + 1]_vars

\* four digits, the first two 19 or 20
IsYear(s) ==
  /\ Len(s) = 4
  /\ \A k \in 1..4 : s[k] \in Digit
  /\ SubSeq(s, 1, 2) \in {Chars("19"), Chars("20")}

\* the degree the entry started by a line has (lines 532-563)
DegreeFrom(line) == EduOfLine(trim(line), YearMatch(trim(line), 1)).degree

\* the entry was started by a line, t, and its year is empty or is a year
\* found in line t or in one of the two lines after it
YearNearby(lines, entry) ==
  \E t \in 1..Len(lines) :
    /\ looksLikeDegree(trim(lines[t]))
    /\ entry.degree = DegreeFrom(lines[t])
    /\ \/ entry.year = <<>>
       \/ /\ IsYear(entry.year)
          /\ \E j \in t..(t + 2) : j <= Len(lines) /\ includes(lines[j], entry.year)

YearsNearby(lines, entries) == \A n \in 1..Len(entries) : YearNearby(lines, entries[n])

\* C23: in every entry extractEducation returns, year is the empty string or
\* four digits that start with 19 or 20, and it occurs in the line that
\* started the entry or in one of the two lines after it.
YearFieldShape ==
  pc = "returned" => YearsNearby(splitLines(text), result)

\* C23's case: the entry took its institution from the next line and its
\* year from the line after that
YearFromThirdLine ==
  /\ pc = "returned"
  /\ text = Chars("Diploma in Arts\nOxford\n2021")
  /\ result = <<[degree |-> Chars("Diploma in Arts"), institution |-> Chars("Oxford"),
                 year |-> Chars("2021")]>>

\* what the loop over the patterns returns, matches[p] being what
\* text.match gives for the p-th pattern: the match of the first pattern, in
\* the order of the array, that has one
FirstInOrder(matches) ==
  IF \A p \in 1..6 : matches[p] = Null THEN <<>>
  ELSE matches[Least({p \in 1..6 : matches[p] # Null})]

\* one range of each form, in the order in which C24 names the forms
FormExamples ==
  <<Chars("Jan 2020 - Dec 2023"), Chars("March 2021 - Present"), Chars("2018 - 2019"),
    Chars("2017 - present"), Chars("01/2015 - 12/2016"), Chars("3/2014 - Present")>>

\* the p-th pattern of the array is the one for the p-th form
OrderAsNamed == \A p \in 1..6 : PatternMatch(FormExamples[p], p, 1) = FormExamples[p]

\* C24: extractDuration returns the whole match of the first of its six
\* patterns, in the order month range, month to present, year range, year to
\* present, MM/YYYY range, MM/YYYY to present, that matches anywhere in the
\* text, and the empty string when none matches.
FirstPatternWins ==
  pc = "returned" =>
    /\ OrderAsNamed
    /\ result = FirstInOrder([p \in 1..6 |-> PatternMatch(text, p, 1)])

\* C24's case: a year range stands before a month range, and the month range
\* is returned
LaterRangeReturned ==
  /\ pc = "returned"
  /\ text = Chars("2018 - 2019, Jan 2020 - Dec 2023")
  /\ result = Chars("Jan 2020 - Dec 2023")

LowOverlap ==
  Chars("Your CV has low keyword overlap with the job description. Consider adding more relevant technical skills and experience.")
GoodFoundation ==
  Chars("Good foundation, but you could improve keyword matching by incorporating more job-specific terms.")
ExcellentAlignment ==
  Chars("Excellent keyword alignment! Your CV matches well with the job requirements.")

\* the message of the bucket a score falls in; no message for a score that
\* is in none of the three
BucketMessages(score) ==
  IF score.nan THEN {}
  ELSE IF score.value < 30 THEN {LowOverlap}
  ELSE IF score.value < 60 THEN {GoodFoundation}
  ELSE {ExcellentAlignment}

\* the entry that lists the first five missing keywords at most
ConsiderAdding(missingKeywords) ==
  Chars("Consider adding these keywords: ")
    \o join(SubSeq(missingKeywords, 1, IF Len(missingKeywords) < 5
                                       THEN Len(missingKeywords) ELSE 5),
            Chars(", "))

\* the suggestions are one message of the bucket of the score, and then the
\* entry of the missing keywords if there are any
BucketThenKeywords(suggestions, score, missingKeywords) ==
  /\ Len(suggestions) >= 1
  /\ suggestions[1] \in BucketMessages(score)
  /\ IF Len(missingKeywords) > 0
     THEN Len(suggestions) = 2 /\ suggestions[2] = ConsiderAdding(missingKeywords)
     ELSE Len(suggestions) = 1

\* C25: the suggestions of the matcher are the message of the bucket of the
\* reported score (below 30, from 30 to 59, 60 or more), followed by one entry
\* with the first five missing keywords at most if and only if there are
\* missing keywords.
SuggestionsByBucket ==
  (/\ pc = "responded" /\ status = 200
   /\ \E k \in 1..Len(jobDescription) : jobDescription[k] \notin Whitespace)
  => BucketThenKeywords(result.suggestions, result.matchScore, result.missingKeywords)

\* the same for the scores that are numbers
SuggestionsByBucketOfNumbers ==
  (/\ pc = "responded" /\ status = 200
   /\ \E k \in 1..Len(jobDescription) : jobDescription[k] \notin Whitespace
   /\ ~result.matchScore.nan)
  => BucketThenKeywords(result.suggestions, result.matchScore, result.missingKeywords)

\* a score of the middle bucket, with missing keywords
MiddleBucketAnswered ==
  /\ pc = "responded" /\ status = 200
  /\ Len(result.suggestions) = 2
  /\ result.suggestions[1] = GoodFoundation

\* the characters C26 lists
PhoneCharacters == Digit \cup {"+", " ", "(", ")", "-"}

\* C26: personalInfo.phone is the empty string, or it has at least 10
\* characters, all of them a plus sign, a digit, a space, a parenthesis or a
\* hyphen, and it is the trimmed text of the first match of the phone pattern.
PhoneShape ==
  pc = "returned" =>
    \/ cvData.personalInfo.phone = <<>>
    \/ /\ Len(cvData.personalInfo.phone) >= 10
       /\ \A k \in 1..Len(cvData.personalInfo.phone) :
            cvData.personalInfo.phone[k] \in PhoneCharacters
       /\ FieldMatch(text, "phone") # Null
       /\ cvData.personalInfo.phone = trim(FieldMatch(text, "phone"))

\* the request was answered with an analysis
Analyzed == pc = "responded" /\ status = 200 /\ "insights" \in DOMAIN result

\* C27: in the /analyze-cv pipeline a CV for which processCV extracted no
\* experience entry receives the 'critical' insight 'No Work Experience
\* Found', and a CV with fewer than 5 extracted skills receives the
\* 'suggestion' insight about expanding the skills section.
InsightsForMissingSections ==
  Analyzed =>
    /\ Len(cvData.experience) = 0 => has(result.insights, NoWorkExperience)
    /\ Len(cvData.skills) < 5 => has(result.insights, ExpandSkills)

\* the half of C27 on skills alone
SkillsInsightIssued ==
  Analyzed /\ Len(cvData.skills) < 5 => has(result.insights, ExpandSkills)

\* the pipeline never issues the 'critical' insight
NoCriticalInsight == Analyzed => ~has(result.insights, NoWorkExperience)

\* an analysis of a CV without experience was answered
NoExperienceAnalyzed == Analyzed /\ Len(cvData.experience) = 0

\* processCV extracted nothing: no contact field, no sentence for the
\* summary, no experience, skill or education entry
NothingExtracted ==
  /\ cvData.personalInfo.name = <<>>
  /\ cvData.personalInfo.email = <<>>
  /\ cvData.personalInfo.phone = <<>>
  /\ cvData.summary = <<".">>
  /\ cvData.experience = <<>>
  /\ cvData.skills = <<>>
  /\ cvData.education = <<>>

\* C30: the completenessScore of the /analyze-cv response is 0 for a CV from
\* which nothing was extracted: the placeholders put in by
\* formatAnalysisResult earn no points.
NothingExtractedScoresZero ==
  Analyzed /\ NothingExtracted => result.completenessScore = Num(0)

\* what the placeholders earn: 10 for the experience entry, 4 for the two
\* skills and 7.5 for the education entry, rounded
NothingExtractedScores22 ==
  Analyzed /\ NothingExtracted => result.completenessScore = Num(22)

\* C28: on one CVProcessor instance, whatever documents were analysed
\* before, extractKeywords returns for a document the keywords a new
\* instance returns for it.
KeywordsOfThisDocument ==
  pc = "returned" /\ Len(tfidf) > 0 => result = extractKeywords(<<>>, text)

\* the first analysis of an instance returns the keywords of its document
FirstKeywordsOfThisDocument ==
  pc = "returned" /\ Len(tfidf) = 1 => result = extractKeywords(<<>>, text)

\* every analysis of an instance returns the keywords of its first document
KeywordsOfFirstDocument ==
  pc = "returned" /\ Len(tfidf) > 0 =>
    \A k \in 1..Len(result) : has(tfidf[1], result[k])

\* a second document was analysed on an instance
SecondDocumentAnalysed == pc = "returned" /\ Len(tfidf) = 2

\* the entry has a title, or a degree when it is an education entry
Named(entry) ==
  IF "title" \in DOMAIN entry THEN Len(entry.title) > 0 ELSE Len(entry.degree) > 0

\* C29: every entry extractExperience returns has a non-empty title and
\* every entry extractEducation returns a non-empty degree; no entry of
\* extractExperience was pushed for a job that a line started without a
\* title.
EntriesAreNamed ==
  pc = "returned" =>
    /\ \A k \in 1..Len(result) : Named(result[k])
    /\ (Len(result) > 0 /\ "title" \in DOMAIN result[1]) =>
         \A n \in 1..Len(locals.pushedFrom) :
           Len(TitleFrom(splitLines(text)[locals.pushedFrom[n]])) > 0

\* C29's case: the second line, a date range, started a job without a
\* title, which took the third line for its company and was dropped
UntitledJobDropped ==
  /\ pc = "returned"
  /\ text = join(<<Chars("Dev | Acme 2020 - 2022"), Chars("2019 - 2021"),
                   Chars("Team Lead")>>, <<"\n">>)
  /\ locals.started = <<1, 2>>
  /\ Len(result) = 1
  /\ result[1].title = Chars("Dev")

\* a line of a year and a separator started an entry without a degree, which
\* was dropped
UndegreedEntryDropped ==
  /\ pc = "returned"
  /\ text = join(<<Chars("2017 |"), Chars("BSc CS, MIT 2019")>>, <<"\n">>)
  /\ Len(result) = 1
  /\ result[1].degree = Chars("BSc CS")
=============================================================================
